---- MODULE Spec2Model ----
(***************************************************************************)
(* The download server of server/index.js as a state machine: the          *)
(* in-memory credential store (platformCookies), the temp directory, and   *)
(* one POST /api/download request driven through its awaits, together      *)
(* with the operations that run concurrently with it (POST /api/cookies,   *)
(* the start-up cookie load, GET /api/file, the clock).                    *)
(*                                                                         *)
(* Node runs one callback at a time, and an awaiting handler resumes in a  *)
(* microtask right after the callback that resolved its promise: so one    *)
(* action is one event callback together with the handler code that runs   *)
(* up to the next await.                                                   *)
(*                                                                         *)
(* The clock counts seconds (Date.now() counts milliseconds; every         *)
(* duration of the source is scaled by 1/1000 to stay inside TLC's         *)
(* integers).  A URL is modelled by the outcome of the three substring     *)
(* tests the code applies to it.                                           *)
(***************************************************************************)
EXTENDS Integers, FiniteSets, Sequences, TLC

\* ------------------------------------------------------------------ bounds
\* The clock runs over 1..MaxNow.
MaxNow == 2
\* GET /api/file requests made while the download request is observed.
MaxServes == 2
\* POST /api/cookies requests made while the download request is observed.
MaxSubmits == 1

\* ------------------------------------------------------------------ values
Platforms == {"instagram", "twitter", "youtube"}
NoPlatform == "none"
\* JavaScript null for a cookie string, a timestamp, a file that is not there.
NoCookies == "null"
NoTime == -1
Absent == -1
\* The cookie string a client submits with POST /api/cookies ("c1" comes from
\* the credential backend, "c2" with a download request).
Material == {"c3"}
\* Two cookie strings for two POST /api/cookies in a row.
SubmitMaterial == {"c3", "c4"}
Time == 1..MaxNow
\* One day in clock units.
Day == 24 * 60 * 60
COOKIE_EXPIRY_DAYS == [instagram |-> 90, twitter |-> 365, youtube |-> 180]
INLINE_EXPIRY_DAYS == 90
\* The size floors of the three inline size checks, in bytes.
COBALT_MIN_SIZE == 50000
YTDLP_MIN_SIZE == 10240
SERVE_MIN_SIZE == 10240
\* File sizes a subprocess may leave behind: every side of every floor.
Sizes == {0, YTDLP_MIN_SIZE - 1, YTDLP_MIN_SIZE, COBALT_MIN_SIZE - 1, COBALT_MIN_SIZE}

EmptyEntry == [cookies |-> NoCookies, syncedAt |-> NoTime, expiresAt |-> NoTime]

\* The outcome of url.includes(...) for the three platforms the handler tests.
Urls ==
    {u \in [ig : BOOLEAN, tw : BOOLEAN, yt : BOOLEAN] :
        ~(u.ig /\ u.tw) /\ ~(u.ig /\ u.yt) /\ ~(u.tw /\ u.yt)}
isInstagram(url) == url.ig
isTwitter(url) == url.tw
isYoutube(url) == url.yt

detectPlatformFromUrl(url) ==
    IF url.ig THEN "instagram"
    ELSE IF url.yt THEN "youtube"
    ELSE IF url.tw THEN "twitter"
    ELSE "unknown"

\* Artifact names: video_<Date.now()>.mp4, cobalt_<Date.now()>.mp4, and a
\* name the resolver supplies.
VideoName(t) == <<"video", t>>
CobaltName(t) == <<"cobalt", t>>
ResolverName == <<"clip", 0>>
NoFile == <<"none", 0>>
FileNames == {VideoName(t) : t \in Time} \cup {CobaltName(t) : t \in Time} \cup {ResolverName}

\* ------------------------------------------------------------------ state
VARIABLES
    env,              \* which behaviours of the collaborators this run enumerates
    platformCookies,  \* the credential store
    now,              \* Date.now()
    loadIdx,          \* position of loadAllCookiesFromBackend in its loop
    pc,               \* the await the download handler is suspended at
    req,              \* the request body
    probed,           \* history: checkVideoStatus was called
    status,           \* status.status of the handler
    ytdlpFirst,       \* ytdlpResult of the cookie-first block
    cobaltResult,     \* cobaltResult
    ytdlpResult,      \* ytdlpResult of the fallback
    videoInfo,        \* videoInfo: where the metadata handed to the upload came from
    proc,             \* the subprocess the handler awaits
    killed,           \* killed subprocesses whose close event is still due
    files,            \* TEMP_DIR: artifact name -> size
    sidecars,         \* TEMP_DIR: the .info.json beside video_<t>.mp4
    cookieFile,       \* TEMP_DIR: <platform>_cookies.txt
    calls,            \* history: invocations of each adapter
    first,            \* history: the adapter invoked first
    sent,             \* history: res.json calls of the download handler
    resp,             \* the response body sent
    lastClose,        \* history: the close event this step delivered, if it was one
    lastFetch,        \* history: the fetchCookiesFromBackend call that returned in this step
    lastUpload,       \* history: how uploadToDriveViaBackend returned in this step
    lastStatus,       \* history: the body GET /api/cookies/status sent in this step
    lastReply,        \* history: the answer of POST /api/cookies or GET /api/file sent in this step
    timers,           \* timers still armed although their subprocess has closed
    peer,             \* the adapter subprocess of another request in flight
    jar,              \* history: the cookie file createCookieFile wrote last
    failed,           \* history: the adapters that have returned a failure
    uploads,          \* history: calls of uploadToDriveViaBackend
    submits,          \* POST /api/cookies requests accepted
    serves,           \* GET /api/file requests received
    transfers,        \* res.download transfers in progress
    deleteTimers      \* the 5 s deletion timers pending

store == <<platformCookies, now, loadIdx, submits>>
request == <<pc, req, probed, status>>
control == <<proc, cookieFile, calls, first, sent, resp, uploads, videoInfo>>
results == <<ytdlpFirst, cobaltResult, ytdlpResult, failed>>
disk == <<files, sidecars, killed>>
serving == <<serves, transfers, deleteTimers>>
vars == <<env, platformCookies, now, loadIdx, pc, req, probed, status, ytdlpFirst,
          cobaltResult, ytdlpResult, videoInfo, proc, killed, files, sidecars, cookieFile,
          calls, first, sent, resp, lastClose, lastFetch, lastUpload, lastStatus, lastReply, timers, peer,
          failed, uploads, submits, serves, transfers,
          deleteTimers, jar>>

\* ------------------------------------------------------- credential store
hasCookies(pcs, p) == pcs[p].cookies # NoCookies

\* Mutation: a credential counts as expired from now = expiresAt on.
ExpiredAtBoundary(entry, t) ==
    entry.expiresAt # NoTime /\ entry.expiresAt # 0 /\ t >= entry.expiresAt

\* isExpired = expiresAt && now > expiresAt
isExpired(entry, t) ==
    entry.expiresAt # NoTime /\ entry.expiresAt # 0 /\ t > entry.expiresAt

\* What GET /cookies/:platform of the credential backend may answer.
BackendAnswers ==
    {[kind |-> k, success |-> FALSE, cookies |-> NoCookies, syncedAt |-> NoTime,
      expiresAt |-> NoTime] : k \in {"unreachable", "notjson"}}
    \cup [kind : {"json"}, success : BOOLEAN, cookies : {NoCookies, "c1"},
          syncedAt : {1}, expiresAt : {1, 2}]

\* Mutation: the expiry is computed from the platform's window.
fetchComputesExpiry(pcs, platform, ans) ==
    IF ans.kind = "json" /\ ans.success /\ ans.cookies # NoCookies
    THEN [pcs EXCEPT ![platform] =
             [cookies |-> ans.cookies, syncedAt |-> ans.syncedAt,
              expiresAt |-> ans.syncedAt + COOKIE_EXPIRY_DAYS[platform] * Day]]
    ELSE pcs

\* Mutation: a failed fetch clears the platform's entry.
fetchClearsOnFailure(pcs, platform, ans) ==
    IF ans.kind = "json" /\ ans.success /\ ans.cookies # NoCookies
    THEN [pcs EXCEPT ![platform] = [cookies |-> ans.cookies,
                                    syncedAt |-> ans.syncedAt,
                                    expiresAt |-> ans.expiresAt]]
    ELSE [pcs EXCEPT ![platform] = EmptyEntry]

\* Mutation: the entry is written whenever the backend says success.
fetchStoresOnSuccessAlone(pcs, platform, ans) ==
    IF ans.kind = "json" /\ ans.success
    THEN [pcs EXCEPT ![platform] = [cookies |-> ans.cookies,
                                    syncedAt |-> ans.syncedAt,
                                    expiresAt |-> ans.expiresAt]]
    ELSE pcs

\* fetchCookiesFromBackend: the store after the call.
fetchCookiesFromBackend(pcs, platform, ans) ==
    IF ans.kind = "json" /\ ans.success /\ ans.cookies # NoCookies
    THEN [pcs EXCEPT ![platform] = [cookies |-> ans.cookies,
                                    syncedAt |-> ans.syncedAt,
                                    expiresAt |-> ans.expiresAt]]
    ELSE pcs

\* fetchCookiesFromBackend: what the call returns (the cookies, or null).
FetchReturn(ans) ==
    IF ans.kind = "json" /\ ans.success /\ ans.cookies # NoCookies THEN ans.cookies
    ELSE NoCookies

\* A call of fetchCookiesFromBackend that has returned: its platform, what
\* the backend answered and what the call returned.
NoFetch == [platform |-> NoPlatform, kind |-> "none", success |-> FALSE,
            cookies |-> NoCookies, syncedAt |-> NoTime, expiresAt |-> NoTime,
            returned |-> NoCookies]
FetchOf(platform, ans) ==
    [platform |-> platform, kind |-> ans.kind, success |-> ans.success,
     cookies |-> ans.cookies, syncedAt |-> ans.syncedAt, expiresAt |-> ans.expiresAt,
     returned |-> FetchReturn(ans)]

\* No return of uploadToDriveViaBackend in this step.
NoUpload == "none"

\* getCookieStatus: the report on one entry of the store at time t.  A
\* field the report does not carry, and a null daysRemaining, are NoTime.
NotSynced == [synced |-> FALSE, expired |-> FALSE, syncedAt |-> NoTime,
              expiresAt |-> NoTime, daysRemaining |-> NoTime]
getCookieStatus(data, t) ==
    IF data.cookies = NoCookies THEN NotSynced
    ELSE LET expired == isExpired(data, t)
             daysRemaining ==
                 IF data.expiresAt # NoTime /\ data.expiresAt # 0
                 THEN -((-(data.expiresAt - t)) \div Day)
                 ELSE NoTime
         IN [synced |-> TRUE, expired |-> expired, syncedAt |-> data.syncedAt,
             expiresAt |-> data.expiresAt,
             daysRemaining |-> IF expired THEN 0 ELSE daysRemaining]

\* No answer of POST /api/cookies or GET /api/file in this step.  The text
\* field names the key of the JSON body that carries the human-readable
\* text of an answer: message, error, or none.
NoReply == [route |-> "none", status |-> 0, name |-> NoFile, platform |-> NoPlatform,
            cookies |-> NoCookies, text |-> "none"]

\* The body of GET /api/cookies/status.
NoStatus == [success |-> FALSE, cookies |-> [p \in Platforms |-> NotSynced]]
StatusBody(pcs, t) ==
    [success |-> TRUE, cookies |-> [p \in Platforms |-> getCookieStatus(pcs[p], t)]]

\* The body of GET /api/health: the same three reports beside status,
\* cobalt, ytdlp and environment, and no success field (FALSE here).
HealthBody(pcs, t) ==
    [success |-> FALSE, cookies |-> [p \in Platforms |-> getCookieStatus(pcs[p], t)]]

\* Mutation: a report drops the entry it finds expired.
StoreAfterStatusPurged(pcs, t) ==
    [p \in Platforms |->
        IF pcs[p].cookies # NoCookies /\ isExpired(pcs[p], t) THEN EmptyEntry ELSE pcs[p]]

\* The store after getCookieStatus has reported on the three platforms: it
\* reads platformCookies[platform] and assigns nothing.
StoreAfterStatus(pcs, t) == pcs

\* The order loadAllCookiesFromBackend walks the platforms in.
LoadOrder == <<"instagram", "twitter", "youtube">>

\* platform.toLowerCase(), for the platform strings of the request bodies.
toLowerCase(str) == IF str = "Twitter" THEN "twitter" ELSE str

\* The platform field of a POST /api/cookies body: a supported platform, one
\* written with a capital, an unsupported one, or none (NoPlatform).
SubmitPlatforms == Platforms \cup {"Twitter", "tiktok", NoPlatform}

\* Mutation: any platform that is present is accepted.
SubmitStatusAnyPlatform(body) ==
    IF body.platform = NoPlatform \/ body.cookies = NoCookies THEN 400 ELSE 200

\* The HTTP status POST /api/cookies answers this body with.
SubmitStatus(body) ==
    IF body.platform = NoPlatform \/ body.cookies = NoCookies THEN 400
    ELSE IF toLowerCase(body.platform) \notin Platforms THEN 400
    ELSE 200

\* Mutation: a platform that already has cookies keeps its expiry.
SubmittedEntryMerged(platformKey, cookies, t) ==
    [cookies |-> cookies, syncedAt |-> t,
     expiresAt |-> IF hasCookies(platformCookies, platformKey)
                   THEN platformCookies[platformKey].expiresAt
                   ELSE t + COOKIE_EXPIRY_DAYS[platformKey] * Day]

\* Mutation: every platform gets the default window.
SubmittedEntryDefaultWindow(platformKey, cookies, t) ==
    [cookies |-> cookies, syncedAt |-> t, expiresAt |-> t + 90 * Day]

\* The entry POST /api/cookies writes.
SubmittedEntry(platformKey, cookies, t) ==
    [cookies |-> cookies, syncedAt |-> t,
     expiresAt |-> t + COOKIE_EXPIRY_DAYS[platformKey] * Day]

\* The entry the download handler writes for cookies of the request body.
InlineEntry(cookies, t) ==
    [cookies |-> cookies, syncedAt |-> t, expiresAt |-> t + INLINE_EXPIRY_DAYS * Day]

\* Mutation: the inline cookies replace the cookies field alone.
InlineOverwriteCookiesOnly(pcs, r, t) ==
    LET platform == IF isInstagram(r.url) THEN "instagram"
                    ELSE IF isTwitter(r.url) THEN "twitter" ELSE NoPlatform
    IN IF r.cookies # NoCookies /\ platform # NoPlatform
       THEN [pcs EXCEPT ![platform].cookies = r.cookies]
       ELSE pcs

\* The store after the handler has looked at req.body.cookies.
InlineOverwrite(pcs, r, t) ==
    LET platform == IF isInstagram(r.url) THEN "instagram"
                    ELSE IF isTwitter(r.url) THEN "twitter" ELSE NoPlatform
    IN IF r.cookies # NoCookies /\ platform # NoPlatform
       THEN [pcs EXCEPT ![platform] = InlineEntry(r.cookies, t)]
       ELSE pcs

\* ------------------------------------------------------------------ probe
\* Mutation: a second resolve() replaces the value of the promise.
resolveAgain(settled, current, value) == value

\* resolve(value) of a promise: a settled promise keeps its value.
resolve(settled, current, value) == IF settled THEN current ELSE value

ProbePhrases == {"Private video", "Sign in to confirm your age", "Video unavailable",
                 "is not available", "not available in your country", "removed"}
Availabilities == {"public", "private", "needs_auth"}

\* The close handler of checkVideoStatus.
ProbeClassify(errorOutput, availability, code) ==
    IF \/ "Private video" \in errorOutput
       \/ "Sign in to confirm your age" \in errorOutput
       \/ "Video unavailable" \in errorOutput
       \/ availability = "private"
       \/ availability = "needs_auth"
    THEN "private"
    ELSE IF \/ "is not available" \in errorOutput
            \/ "Video unavailable" \in errorOutput
            \/ code # 0
    THEN IF "not available in your country" \in errorOutput THEN "geo-blocked"
         ELSE IF "removed" \in errorOutput THEN "removed"
         ELSE "unavailable"
    ELSE "available"

ProbeStatuses == {"available", "private", "geo-blocked", "removed", "unavailable", "unknown"}

\* Mutation: YouTube cookies past their expiry do not count.
SkipsProbeIfUsable(pcs, url) ==
    LET hasYoutubeCookies == /\ isYoutube(url) /\ hasCookies(pcs, "youtube")
                             /\ now < pcs["youtube"].expiresAt
    IN ~(~isInstagram(url) /\ ~isTwitter(url) /\ ~hasYoutubeCookies)

\* The handler skips the probe and refreshes the cookies instead.
SkipsProbe(pcs, url) ==
    LET hasYoutubeCookies == isYoutube(url) /\ hasCookies(pcs, "youtube")
    IN ~(~isInstagram(url) /\ ~isTwitter(url) /\ ~hasYoutubeCookies)

\* The platform whose cookies the skip branch refreshes.
RefreshPlatform(url) ==
    IF isInstagram(url) THEN "instagram"
    ELSE IF isTwitter(url) THEN "twitter"
    ELSE IF isYoutube(url) THEN "youtube"
    ELSE NoPlatform

\* Mutation: the handler has no answer for the status unavailable.
TerminalButUnavailable(st) == st \in {"private", "geo-blocked", "removed"}

\* The probe statuses the handler answers at once.
ProbeIsTerminal(st) == st \in {"private", "geo-blocked", "removed", "unavailable"}

\* Mutation: YouTube with cookies is tried with yt-dlp first as well.
YoutubeGoesFirstToo(pcs, url) ==
    \/ isInstagram(url) /\ hasCookies(pcs, "instagram")
    \/ isTwitter(url) /\ hasCookies(pcs, "twitter")
    \/ isYoutube(url) /\ hasCookies(pcs, "youtube")

\* The handler tries yt-dlp before Cobalt.
YtdlpGoesFirst(pcs, url) ==
    \/ isInstagram(url) /\ hasCookies(pcs, "instagram")
    \/ isTwitter(url) /\ hasCookies(pcs, "twitter")

\* ---------------------------------------------------------------- results
NoMeta == <<"none", 0>>
InfoMeta == <<"info", 0>>
SidecarMeta(t) == <<"sidecar", t>>

NoResult ==
    [done |-> FALSE, success |-> FALSE, method |-> "none", filename |-> NoFile,
     size |-> Absent, error |-> "none", meta |-> NoMeta]
Failure(error) ==
    [done |-> TRUE, success |-> FALSE, method |-> "none", filename |-> NoFile,
     size |-> Absent, error |-> error, meta |-> NoMeta]
Success(method, filename, size, meta) ==
    [done |-> TRUE, success |-> TRUE, method |-> method, filename |-> filename,
     size |-> size, error |-> "none", meta |-> meta]

\* A close event: the subprocess, its exit code, the size of its output file
\* when the handler started (Absent: no file), and whether the promise was
\* already settled by the timer.
NoClose ==
    [kind |-> "none", out |-> NoFile, code |-> 0, size |-> Absent, late |-> FALSE,
     errorOutput |-> {}, availability |-> "none"]
CloseOf(p, code, fs, late) ==
    [kind |-> p.kind, out |-> p.out, code |-> code, size |-> fs[p.out], late |-> late,
     errorOutput |-> {}, availability |-> "none"]
\* The close event of the probe: what the process printed and its exit code.
ProbeCloseOf(errorOutput, availability, code) ==
    [kind |-> "probe", out |-> NoFile, code |-> code, size |-> Absent, late |-> FALSE,
     errorOutput |-> errorOutput, availability |-> availability]

\* The setTimeout armed beside each spawn, in seconds.
PROBE_TIMEOUT == 10
TRANSFER_TIMEOUT == 300
YTDLP_TIMEOUT == 300
INFO_TIMEOUT == 15

\* The delay of the timer armed for a subprocess of this kind (0: none).
TimerOf(kind) ==
    IF kind = "probe" THEN PROBE_TIMEOUT
    ELSE IF kind = "curl" THEN TRANSFER_TIMEOUT
    ELSE IF kind = "ytdlp" THEN YTDLP_TIMEOUT
    ELSE IF kind = "info" THEN INFO_TIMEOUT
    ELSE 0

NoProc ==
    [kind |-> "none", out |-> NoFile, cookies |-> NoPlatform, skipped |-> FALSE,
     state |-> "none", timer |-> 0]
Process(kind, out, cookies, skipped) ==
    [kind |-> kind, out |-> out, cookies |-> cookies, skipped |-> skipped,
     state |-> "running", timer |-> TimerOf(kind)]

\* Mutation: the timer's kill reaches no process.
KilledNobody(p) == [kind |-> "none", out |-> NoFile, skipped |-> FALSE]

\* What a close handler that runs after the kill still refers to.
Killed(p) == [kind |-> p.kind, out |-> p.out, skipped |-> p.skipped]

\* ------------------------------------------------- adapter B: downloadWithYtdlp
\* The platform whose cookies downloadWithYtdlp writes to a cookie file and
\* passes with --cookies, or NoPlatform.
YtdlpCookiePlatform(pcs, url, t) ==
    IF isInstagram(url) /\ hasCookies(pcs, "instagram")
    THEN IF ~isExpired(pcs["instagram"], t) THEN "instagram" ELSE NoPlatform
    ELSE IF isTwitter(url) /\ hasCookies(pcs, "twitter")
    THEN IF ~isExpired(pcs["twitter"], t) THEN "twitter" ELSE NoPlatform
    ELSE IF isYoutube(url) /\ hasCookies(pcs, "youtube")
    THEN IF ~isExpired(pcs["youtube"], t) THEN "youtube" ELSE NoPlatform
    ELSE NoPlatform

\* createCookieFile: TEMP_DIR after the call (the file holds the cookie string
\* rewritten line by line).
createCookieFile(cf, platform, cookieString) ==
    [cf EXCEPT ![platform] = cookieString]

\* ------------------------------------------- the lines of the cookie file
\* A cookie string is a sequence of these: the separators, the blank, an
\* ordinary character, the name SID and the prefix __Secure-.
JarChars == {";", "=", " ", "x", "SID", "__Secure-"}
\* The longest first and second pair of a cookie string.
MaxPairLen == 4
MaxSecondLen == 3

RECURSIVE split(_, _)
\* s.split(sep)
split(s, sep) ==
    IF \A i \in 1..Len(s) : s[i] # sep THEN <<s>>
    ELSE LET i == CHOOSE i \in 1..Len(s) : s[i] = sep /\ \A j \in 1..(i - 1) : s[j] # sep
         IN <<SubSeq(s, 1, i - 1)>> \o split(SubSeq(s, i + 1, Len(s)), sep)

RECURSIVE trim(_)
\* s.trim()
trim(s) ==
    IF Len(s) = 0 THEN s
    ELSE IF Head(s) = " " THEN trim(Tail(s))
    ELSE IF s[Len(s)] = " " THEN trim(SubSeq(s, 1, Len(s) - 1))
    ELSE s

RECURSIVE join(_, _)
\* parts.join(sep)
join(parts, sep) ==
    IF Len(parts) = 0 THEN <<>>
    ELSE IF Len(parts) = 1 THEN parts[1]
    ELSE parts[1] \o <<sep>> \o join(Tail(parts), sep)

\* The domains map of createCookieFile.
domains == [instagram |-> ".instagram.com", twitter |-> ".twitter.com",
            youtube |-> ".youtube.com"]
SessionNames == {"SID", "HSID", "SSID", "APISID", "SAPISID"}

\* One line of the Netscape cookie file.
JarLine(domain, expiry, name, value) ==
    [domain |-> domain, subdomains |-> TRUE, path |-> "/", secure |-> TRUE,
     expiry |-> expiry, name |-> name, value |-> value]

\* Mutation: the value ends at its first '='.
JarValueFirstPart(valueParts) == IF Len(valueParts) = 0 THEN <<>> ELSE valueParts[1]

\* valueParts.join('=') of the forEach body.
JarValue(valueParts) == join(valueParts, "=")

\* The body of cookies.forEach: the lines pushed for one cookie.
JarLinesOf(platform, cookie, t) ==
    LET parts == split(cookie, "=")
        name == parts[1]
        value == JarValue(Tail(parts))
        cookieName == trim(name)
        expiry == t + 365 * Day
    IN IF Len(name) > 0 /\ Len(value) > 0
       THEN IF /\ platform = "youtube"
               /\ \/ (Len(cookieName) > 0 /\ cookieName[1] = "__Secure-")
                  \/ cookieName \in {<<n>> : n \in SessionNames}
            THEN <<JarLine(".youtube.com", expiry, cookieName, trim(value)),
                   JarLine(".google.com", expiry, cookieName, trim(value))>>
            ELSE <<JarLine(domains[platform], expiry, cookieName, trim(value))>>
       ELSE <<>>

RECURSIVE JarLinesOfAll(_, _, _)
\* cookies.forEach over the trimmed, non-empty pieces of the cookie string.
JarLinesOfAll(platform, cookies, t) ==
    IF Len(cookies) = 0 THEN <<>>
    ELSE LET c == trim(Head(cookies))
         IN (IF Len(c) = 0 THEN <<>> ELSE JarLinesOf(platform, c, t))
            \o JarLinesOfAll(platform, Tail(cookies), t)

\* createCookieFile: the cookie lines of the file written for a cookie string
\* (after its three header lines).
cookieFileLines(platform, cookieString, t) ==
    JarLinesOfAll(platform, split(cookieString, ";"), t)

\* No cookie file written in this step.
NoJar == [platform |-> NoPlatform, cookieString |-> <<>>, lines |-> <<>>]

RECURSIVE SeqsUpTo(_, _)
\* The sequences over S of length at most n.
SeqsUpTo(S, n) ==
    IF n = 0 THEN {<<>>}
    ELSE LET shorter == SeqsUpTo(S, n - 1)
         IN shorter \cup {Append(s, c) : s \in shorter, c \in S}

\* The cookie strings enumerated: one pair, or two pairs separated by ';'.
JarStrings ==
    LET firsts == SeqsUpTo(JarChars \ {";"}, MaxPairLen)
        seconds == SeqsUpTo({"=", "x", "SID"}, MaxSecondLen)
    IN firsts \cup {a \o <<";">> \o b : a \in firsts, b \in seconds}

YtdlpPhrases == {"Sign in to confirm", "Forbidden", "Not available", "Private video"}

\* The user-facing message of a failed yt-dlp run.
YtdlpError(errorOutput) ==
    IF "Sign in to confirm" \in errorOutput THEN "verification required"
    ELSE IF "Forbidden" \in errorOutput THEN "access denied"
    ELSE IF "Not available" \in errorOutput THEN "not available"
    ELSE IF "Private video" \in errorOutput THEN "private"
    ELSE "yt-dlp download failed"

\* Mutation: only the empty file is rejected.
YtdlpSizeNotZero(size) == ~(size = 0)

\* The size check of downloadWithYtdlp: stats.size passes.
YtdlpSizeOk(size) == ~(size = 0) /\ ~(size < YTDLP_MIN_SIZE)

\* The sidecars the metadata search of the close handler can end at: its own
\* if that parses, else any parseable one of the directory scan (readdirSync
\* promises no order), else none.
SidecarPicks(sc, out) ==
    LET own == out[2]
        good == {t \in Time : sc[t] = "good"}
    IN IF sc[own] = "good" THEN {own}
       ELSE IF good # {} THEN good
       ELSE {NoTime}

\* ytdlp.on('close'): the promise's value and TEMP_DIR after it.
YtdlpOnClose(code, errorOutput, out, fs, sc, pick) ==
    IF code = 0 /\ fs[out] # Absent
    THEN IF ~YtdlpSizeOk(fs[out])
         THEN [result |-> Failure(IF fs[out] = 0 THEN "empty" ELSE "too small"),
               files |-> [fs EXCEPT ![out] = Absent],
               sidecars |-> sc]
         ELSE [result |-> Success("yt-dlp", out, fs[out],
                                  IF pick = NoTime THEN NoMeta ELSE SidecarMeta(pick)),
               files |-> fs,
               sidecars |-> IF pick = NoTime THEN sc ELSE [sc EXCEPT ![pick] = "absent"]]
    ELSE [result |-> Failure(YtdlpError(errorOutput)),
          files |-> fs, sidecars |-> sc]

\* ----------------------------------------------- adapter A: downloadWithCobalt
\* What the resolver may answer, as far as downloadWithCobalt looks at it:
\* flagged stands for data.success && data.skipped.
CobaltAnswers ==
    {[kind |-> k, status |-> "none", url |-> FALSE, filename |-> NoFile,
      flagged |-> FALSE] : k \in {"unreachable", "notjson"}}
    \cup [kind : {"json"}, status : {"error", "tunnel"}, url : BOOLEAN,
          filename : {NoFile, ResolverName}, flagged : BOOLEAN]

\* The error downloadWithCobalt throws before it starts the transfer, or "none".
CobaltAnswerError(ans) ==
    IF ans.kind = "unreachable" THEN "fetch failed"
    ELSE IF ans.kind = "notjson" THEN "Invalid JSON from Cobalt"
    ELSE IF ans.status = "error" THEN "Cobalt failed"
    ELSE IF ~ans.url THEN "No download URL from Cobalt"
    ELSE "none"

\* (data.filename || `cobalt_${Date.now()}.mp4`)
CobaltFilename(ans, t) == IF ans.filename # NoFile THEN ans.filename ELSE CobaltName(t)

\* The size check of downloadWithCobalt: stats.size passes.
CobaltSizeOk(size) == ~(size = 0) /\ ~(size < COBALT_MIN_SIZE)

\* curlProcess.on('close'): whether the promise is resolved, its value,
\* and TEMP_DIR after it.
CurlOnClose(code, out, skipped, fs) ==
    IF code # 0
    THEN [resolved |-> TRUE, result |-> Failure("curl failed"), files |-> fs]
    ELSE IF fs[out] = Absent
    THEN [resolved |-> TRUE, result |-> Failure("file not found"), files |-> fs]
    ELSE IF skipped
    THEN [resolved |-> FALSE, result |-> NoResult, files |-> fs]
    ELSE IF ~CobaltSizeOk(fs[out])
    THEN [resolved |-> TRUE,
          result |-> Failure(IF fs[out] = 0 THEN "empty" ELSE "too small"),
          files |-> [fs EXCEPT ![out] = Absent]]
    ELSE [resolved |-> TRUE, result |-> Success("cobalt", out, fs[out], NoMeta),
          files |-> fs]

\* ------------------------------------------------------------- GET /api/file
\* Mutation: the floor of GET /api/file is dropped.
ServeSizeOkNonEmpty(size) == ~(size = 0)

\* The size check of GET /api/file/:filename: stats.size passes.
ServeSizeOk(size) == ~(size = 0) /\ ~(size < SERVE_MIN_SIZE)

\* ---------------------------------------------------------------- responses
NoResp ==
    [status |-> "none", success |-> FALSE, method |-> "none", filename |-> NoFile,
     size |-> Absent, driveUploaded |-> FALSE, needsCookies |-> FALSE,
     cobaltError |-> "none", ytdlpError |-> "none", meta |-> NoMeta]

\* The body the handler answers a private, geo-blocked, removed or unavailable
\* probe with.
ProbeResponse(st) == [NoResp EXCEPT !.status = st]

\* Mutation: the response names the adapter that was tried first.
SuccessResponseOfFirst(method, result, driveUploaded, meta) ==
    [NoResp EXCEPT !.status = "success", !.success = TRUE, !.method = first,
                   !.filename = result.filename, !.size = result.size,
                   !.driveUploaded = driveUploaded, !.meta = meta]

\* The body of a success response.
SuccessResponse(method, result, driveUploaded, meta) ==
    [NoResp EXCEPT !.status = "success", !.success = TRUE, !.method = method,
                   !.filename = result.filename, !.size = result.size,
                   !.driveUploaded = driveUploaded, !.meta = meta]

\* The body answered when both adapters have failed.
NeedsExtensionResponse(pcs, url, cobalt, ytdlp) ==
    LET cookieMessage ==
            \/ isInstagram(url) /\ ~hasCookies(pcs, "instagram")
            \/ ~(isInstagram(url) /\ ~hasCookies(pcs, "instagram"))
               /\ isTwitter(url) /\ ~hasCookies(pcs, "twitter")
    IN [NoResp EXCEPT !.status = "needs-extension", !.needsCookies = cookieMessage,
                      !.cobaltError = cobalt.error, !.ytdlpError = ytdlp.error]

\* ------------------------------------------- the handler between two awaits
\* Each of these is the code of app.post('/api/download') from one await to
\* the next (or to its return): the handler's position, the subprocess it
\* waits for, the cookie files, and what it has sent.

\* return res.json(body)
Respond(body) ==
    /\ pc' = "done"
    /\ proc' = NoProc
    /\ resp' = body
    /\ sent' = sent + 1
    /\ lastUpload' = NoUpload
    /\ UNCHANGED <<cookieFile, calls, first, uploads, videoInfo>>

\* const cobaltResult = await downloadWithCobalt(url), up to its fetch.
StartCobalt ==
    /\ pc' = "cobalt_fetch"
    /\ proc' = NoProc
    /\ calls' = [calls EXCEPT !.cobalt = @ + 1]
    /\ first' = IF first = "none" THEN "cobalt" ELSE first
    /\ lastUpload' = NoUpload
    /\ UNCHANGED <<cookieFile, sent, resp, uploads, videoInfo>>

\* await downloadWithYtdlp(url), up to the spawn: the executor of its promise.
StartYtdlp(at, pcs) ==
    LET platform == YtdlpCookiePlatform(pcs, req.url, now)
    IN /\ pc' = at
       /\ cookieFile' = IF platform = NoPlatform THEN cookieFile
                        ELSE createCookieFile(cookieFile, platform, pcs[platform].cookies)
       /\ proc' = Process("ytdlp", VideoName(now), platform, FALSE)
       /\ calls' = [calls EXCEPT !.ytdlp = @ + 1]
       /\ first' = IF first = "none" THEN "yt-dlp" ELSE first
       /\ lastUpload' = NoUpload
       /\ UNCHANGED <<sent, resp, uploads, videoInfo>>

\* The try-order: yt-dlp first for Instagram and Twitter with cookies.
ChooseAdapter(pcs) ==
    IF YtdlpGoesFirst(pcs, req.url) THEN StartYtdlp("ytdlp_first", pcs) ELSE StartCobalt

\* Mutation: the answers to the probe lack their return, so the handler goes
\* on to Cobalt after answering.
AfterProbeNoReturn(st) ==
    IF ProbeIsTerminal(st)
    THEN /\ pc' = "cobalt_fetch"
         /\ proc' = NoProc
         /\ resp' = ProbeResponse(st)
         /\ sent' = sent + 1
         /\ calls' = [calls EXCEPT !.cobalt = @ + 1]
         /\ first' = IF first = "none" THEN "cobalt" ELSE first
         /\ lastUpload' = NoUpload
         /\ UNCHANGED <<cookieFile, uploads, videoInfo>>
    ELSE ChooseAdapter(platformCookies)

\* The handler after checkVideoStatus has returned st.
AfterProbe(st) ==
    IF ProbeIsTerminal(st) THEN Respond(ProbeResponse(st))
    ELSE ChooseAdapter(platformCookies)

\* uploadToDriveViaBackend up to its fetch, and the response when it returns
\* before fetching.
StartUpload(at, method, result, fs, meta) ==
    IF fs[result.filename] = Absent \/ ~req.ids
    THEN /\ pc' = "done"
         /\ proc' = NoProc
         /\ resp' = SuccessResponse(method, result, FALSE, meta)
         /\ sent' = sent + 1
         /\ uploads' = uploads + 1
         /\ videoInfo' = meta
         /\ lastUpload' = IF ~req.ids THEN "no ids" ELSE "no file"
         /\ UNCHANGED <<cookieFile, calls, first>>
    ELSE /\ pc' = at
         /\ proc' = NoProc
         /\ uploads' = uploads + 1
         /\ videoInfo' = meta
         /\ lastUpload' = NoUpload
         /\ UNCHANGED <<cookieFile, calls, first, sent, resp>>

\* const videoInfo = await getVideoInfo(url) || {}
StartInfo ==
    /\ pc' = "cobalt_info"
    /\ proc' = Process("info", NoFile, NoPlatform, FALSE)
    /\ lastUpload' = NoUpload
    /\ UNCHANGED <<cookieFile, calls, first, sent, resp, uploads, videoInfo>>

\* The adapters that have returned a failure, after this result of adapter.
Failed(adapter, result) == IF result.success THEN failed ELSE failed \cup {adapter}

\* Mutation: the cookie-first block falls through to Cobalt after a success too.
AfterYtdlpFirstFallsThrough(result, fs) ==
    /\ ytdlpFirst' = IF result.success THEN result ELSE NoResult
    /\ failed' = Failed("yt-dlp", result)
    /\ UNCHANGED <<cobaltResult, ytdlpResult>>
    /\ StartCobalt

\* The handler after the cookie-first downloadWithYtdlp has returned; a failed
\* result is logged and not read again.
AfterYtdlpFirst(result, fs) ==
    /\ ytdlpFirst' = IF result.success THEN result ELSE NoResult
    /\ failed' = Failed("yt-dlp", result)
    /\ UNCHANGED <<cobaltResult, ytdlpResult>>
    /\ IF result.success
       THEN StartUpload("upload_first", "yt-dlp", result, fs, result.meta)
       ELSE StartCobalt

\* The handler after the fallback downloadWithYtdlp has returned.
AfterYtdlpFallback(result, fs) ==
    /\ ytdlpResult' = result
    /\ failed' = Failed("yt-dlp", result)
    /\ UNCHANGED <<cobaltResult, ytdlpFirst>>
    /\ IF result.success
       THEN StartUpload("upload_fallback", "yt-dlp", result, fs, result.meta)
       ELSE Respond(NeedsExtensionResponse(platformCookies, req.url, cobaltResult, result))

\* The handler after downloadWithYtdlp has returned, at either of its calls.
AfterYtdlp(result, fs) ==
    IF pc = "ytdlp_first" THEN AfterYtdlpFirst(result, fs)
    ELSE AfterYtdlpFallback(result, fs)

\* The handler after downloadWithCobalt has returned.
AfterCobalt(result) ==
    /\ cobaltResult' = result
    /\ failed' = Failed("cobalt", result)
    /\ UNCHANGED <<ytdlpFirst, ytdlpResult>>
    /\ IF result.success THEN StartInfo
       ELSE StartYtdlp("ytdlp_fallback", platformCookies)

\* uploadToDriveViaBackend after its fetch: success of the hand-off, and
\* TEMP_DIR (fs.unlinkSync throws into the catch when the file has gone).
UploadAnswers == {"unreachable", "notok", "notjson", "ok", "skipped", "failed"}
\* Mutation: an answer flagged skipped counts as an upload.
uploadCountsSkipped(ans, filePath, fs) ==
    IF ans \in {"ok", "skipped"} /\ fs[filePath] # Absent
    THEN [success |-> TRUE, files |-> [fs EXCEPT ![filePath] = Absent]]
    ELSE [success |-> FALSE, files |-> fs]

\* Mutation: the local file is kept after the hand-off.
uploadKeepsFile(ans, filePath, fs) ==
    IF ans = "ok" /\ fs[filePath] # Absent
    THEN [success |-> TRUE, files |-> fs]
    ELSE [success |-> FALSE, files |-> fs]

uploadToDriveViaBackend(ans, filePath, fs) ==
    IF ans = "ok" /\ fs[filePath] # Absent
    THEN [success |-> TRUE, files |-> [fs EXCEPT ![filePath] = Absent]]
    ELSE [success |-> FALSE, files |-> fs]

\* ------------------------------------------------------------------ Init
Requests == [url : Urls, cookies : {NoCookies, "c2"}, ids : BOOLEAN]
NoRequest == [url |-> [ig |-> FALSE, tw |-> FALSE, yt |-> FALSE], cookies |-> NoCookies,
              ids |-> FALSE]
ExitCodes == {0, 1}

\* The runs are enumerated in families.  In "flow" every request, the
\* clock and a concurrent POST /api/cookies are enumerated and a subprocess
\* writes a file of one valid size or none; in "files" the request is for a
\* URL of no credential platform, the clock and the store stand still, and
\* every size, diagnostic, sidecar and late close event is enumerated.  In
\* "store" every writer and reader of the credential store is enumerated
\* (the startup load, repeated POST /api/cookies with different material,
\* GET /api/cookies/status, the inline cookies and the refresh of a request
\* for a Twitter or YouTube URL).  In "events" a request without cookies is
\* followed through every event of its subprocesses: the close event and the
\* timer of the probe in either order with what the probe printed, and a
\* subprocess that cannot be started.  In "pair" a second download request is in flight: its adapter
\* subprocess takes its output path from the same clock and the same resolver
\* and writes to the same TEMP_DIR.  In "serve" GET /api/file requests for
\* the files of TEMP_DIR arrive while a download request writes them.  In
\* "jar" createCookieFile is applied to every short cookie string.  In
\* "share" two download requests for Instagram URLs and a POST /api/cookies
\* use the one cookie file of the platform.
Envs == {"flow", "files"}
RequestsOf(e) ==
    IF e = "flow" THEN Requests
    ELSE IF e = "events"
    THEN {r \in Requests : /\ r.ids /\ r.cookies = NoCookies
                           /\ detectPlatformFromUrl(r.url) \in {"unknown", "instagram"}}
    ELSE IF e = "store" THEN {r \in Requests : ~r.ids /\ (r.url.tw \/ r.url.yt)}
    ELSE IF e = "share" THEN {r \in Requests : r.url.ig /\ ~r.ids}
    ELSE IF e \in {"pair", "serve"}
    THEN {r \in Requests : /\ ~r.ids /\ r.cookies = NoCookies
                           /\ detectPlatformFromUrl(r.url) = "unknown"}
    ELSE {r \in Requests : detectPlatformFromUrl(r.url) = "unknown" /\ r.cookies = NoCookies}
SizesOf(e) ==
    IF e \in {"flow", "events", "pair", "share"} THEN {COBALT_MIN_SIZE}
    ELSE IF e = "serve" THEN {0, SERVE_MIN_SIZE - 1, SERVE_MIN_SIZE, COBALT_MIN_SIZE}
    ELSE Sizes
YtdlpPhrasesOf(e) == IF e = "files" THEN YtdlpPhrases ELSE {}
CobaltAnswersOf(e) ==
    IF e \in {"flow", "events", "share"}
    THEN {a \in CobaltAnswers : a.kind # "notjson" /\ a.filename = NoFile}
    ELSE CobaltAnswers
\* The URLs of the other download request in flight.
PeerUrlsOf(e) ==
    IF e = "share" THEN {u \in Urls : u.ig}
    ELSE {u \in Urls : detectPlatformFromUrl(u) = "unknown"}
\* The cookie string of the n-th POST /api/cookies after the first.
MaterialOf(e, n) == IF e = "store" /\ n > 0 THEN SubmitMaterial \ Material ELSE Material
SubmitsOf(e) == IF e = "store" THEN MaxSubmits + 1 ELSE MaxSubmits
\* The bodies of the n-th POST /api/cookies after the first.
SubmitBodiesOf(e, n) ==
    IF e = "store"
    THEN [platform : SubmitPlatforms, cookies : MaterialOf(e, n) \cup {NoCookies}]
    ELSE [platform : Platforms, cookies : MaterialOf(e, n)]

Constructed ==
    /\ platformCookies = [p \in Platforms |-> EmptyEntry]
    /\ now = 1
    /\ loadIdx = 0
    /\ submits = 0
    /\ pc = "idle"
    /\ req = NoRequest
    /\ probed = FALSE
    /\ status = "available"
    /\ ytdlpFirst = NoResult
    /\ cobaltResult = NoResult
    /\ ytdlpResult = NoResult
    /\ failed = {}
    /\ videoInfo = NoMeta
    /\ proc = NoProc
    /\ killed = {}
    /\ files = [f \in FileNames |-> Absent]
    /\ sidecars = [t \in Time |-> "absent"]
    /\ cookieFile = [p \in Platforms |-> NoCookies]
    /\ calls = [cobalt |-> 0, ytdlp |-> 0]
    /\ first = "none"
    /\ sent = 0
    /\ resp = NoResp
    /\ lastClose = NoClose
    /\ lastFetch = NoFetch
    /\ lastUpload = NoUpload
    /\ lastStatus = NoStatus
    /\ lastReply = NoReply
    /\ timers = {}
    /\ peer = NoProc
    /\ jar = NoJar
    /\ uploads = 0
    /\ serves = 0
    /\ transfers = {}
    /\ deleteTimers = {}

Init == env \in Envs /\ Constructed

InitStore == env = "store" /\ Constructed

InitEvents == env = "events" /\ Constructed

InitPair == env = "pair" /\ Constructed

InitServe == env = "serve" /\ Constructed

InitJar == env = "jar" /\ Constructed

InitShare == env = "share" /\ Constructed

\* ------------------------------------------------ the credential store's writers
\* Date.now() advances.
Tick ==
    /\ env \in {"flow", "store", "pair"}
    /\ now < MaxNow
    /\ now' = now + 1
    /\ lastClose' = NoClose
    /\ lastStatus' = NoStatus
    /\ lastReply' = NoReply
    /\ lastFetch' = NoFetch
    /\ lastUpload' = NoUpload
    /\ UNCHANGED <<env, jar, peer, timers, platformCookies, loadIdx, submits, request, results, control, disk,
                   serving>>

\* One iteration of loadAllCookiesFromBackend.
LoadCookies ==
    /\ loadIdx < Len(LoadOrder)
    /\ \E ans \in BackendAnswers :
         /\ platformCookies' =
                fetchCookiesFromBackend(platformCookies, LoadOrder[loadIdx + 1], ans)
         /\ lastFetch' = FetchOf(LoadOrder[loadIdx + 1], ans)
    /\ loadIdx' = loadIdx + 1
    /\ lastClose' = NoClose
    /\ lastStatus' = NoStatus
    /\ lastReply' = NoReply
    /\ lastUpload' = NoUpload
    /\ UNCHANGED <<env, jar, peer, timers, now, submits, request, results, control, disk, serving>>

\* POST /api/cookies: 400, or the entry is written and success answered.
SubmitCookies ==
    /\ env \in {"flow", "store", "share"}
    /\ submits < SubmitsOf(env)
    /\ \E body \in SubmitBodiesOf(env, submits) :
         LET platformKey == toLowerCase(body.platform)
         IN /\ IF SubmitStatus(body) = 200
               THEN /\ platformCookies' =
                           [platformCookies EXCEPT ![platformKey] =
                               SubmittedEntry(platformKey, body.cookies, now)]
                    /\ submits' = submits + 1
               ELSE UNCHANGED <<platformCookies, submits>>
            /\ lastReply' = [route |-> "cookies", status |-> SubmitStatus(body),
                             name |-> NoFile, platform |-> body.platform,
                             cookies |-> body.cookies, text |-> "message"]
    /\ lastClose' = NoClose
    /\ lastStatus' = NoStatus
    /\ lastFetch' = NoFetch
    /\ lastUpload' = NoUpload
    /\ UNCHANGED <<env, jar, peer, timers, now, loadIdx, request, results, control, disk, serving>>

\* GET /api/cookies/status.
GetCookieStatus ==
    /\ env = "store"
    /\ lastStatus' = StatusBody(platformCookies, now)
    /\ platformCookies' = StoreAfterStatus(platformCookies, now)
    /\ lastReply' = NoReply
    /\ lastClose' = NoClose
    /\ lastFetch' = NoFetch
    /\ lastUpload' = NoUpload
    /\ UNCHANGED <<env, jar, peer, timers, now, loadIdx, submits, request, results, control, disk,
                   serving>>

\* GET /api/health.
GetHealth ==
    /\ env = "store"
    /\ lastStatus' = HealthBody(platformCookies, now)
    /\ platformCookies' = StoreAfterStatus(platformCookies, now)
    /\ lastReply' = [route |-> "health", status |-> 200, name |-> NoFile,
                     platform |-> NoPlatform, cookies |-> NoCookies, text |-> "none"]
    /\ lastClose' = NoClose
    /\ lastFetch' = NoFetch
    /\ lastUpload' = NoUpload
    /\ UNCHANGED <<env, jar, peer, timers, now, loadIdx, submits, request, results, control, disk,
                   serving>>

\* ------------------------------------------------------ POST /api/download
\* The handler from its entry to its first await.
Receive ==
    /\ pc = "idle"
    /\ \E r \in RequestsOf(env) :
         LET pcs == InlineOverwrite(platformCookies, r, now)
         IN /\ req' = r
            /\ platformCookies' = pcs
            /\ IF SkipsProbe(pcs, r.url)
               THEN pc' = "refresh" /\ proc' = NoProc /\ probed' = FALSE
               ELSE pc' = "probe" /\ probed' = TRUE
                    /\ proc' = Process("probe", NoFile, NoPlatform, FALSE)
    /\ lastClose' = NoClose
    /\ lastStatus' = NoStatus
    /\ lastReply' = NoReply
    /\ lastFetch' = NoFetch
    /\ lastUpload' = NoUpload
    /\ UNCHANGED <<env, jar, peer, timers, now, loadIdx, submits, status, results, cookieFile, calls, first, sent,
                   resp, uploads, videoInfo, disk, serving>>

\* checkVideoStatus: the probe process closes.
ProbeClose ==
    /\ pc = "probe"
    /\ \E errorOutput \in SUBSET ProbePhrases, availability \in Availabilities,
          code \in ExitCodes :
         LET st == ProbeClassify(errorOutput, availability, code)
         IN /\ status' = st /\ AfterProbe(st)
            /\ lastClose' = IF env = "events"
                            THEN ProbeCloseOf(errorOutput, availability, code)
                            ELSE NoClose
    /\ timers' = timers \cup {"probe"}
    /\ lastStatus' = NoStatus
    /\ lastReply' = NoReply
    /\ lastFetch' = NoFetch
    /\ UNCHANGED <<env, jar, peer, store, req, probed, results, disk, serving>>

\* checkVideoStatus: the 10 s timer fires first, the process is killed.
ProbeTimeout ==
    /\ pc = "probe" /\ proc.timer > 0
    /\ status' = "unknown"
    /\ killed' = killed \cup {Killed(proc)}
    /\ AfterProbe("unknown")
    /\ lastClose' = NoClose
    /\ lastStatus' = NoStatus
    /\ lastReply' = NoReply
    /\ lastFetch' = NoFetch
    /\ UNCHANGED <<env, jar, peer, timers, store, req, probed, results, files, sidecars, serving>>

\* ytdlp.on('close') of the probe after its timer: resolve() of a settled
\* promise.
ProbeLateClose ==
    /\ env = "events" /\ pc # "crashed"
    /\ \E k \in killed :
         /\ k.kind = "probe"
         /\ killed' = killed \ {k}
    /\ \E errorOutput \in SUBSET ProbePhrases, availability \in Availabilities,
          code \in ExitCodes :
         status' = resolve(pc # "probe", status,
                           ProbeClassify(errorOutput, availability, code))
    /\ lastClose' = NoClose
    /\ lastStatus' = NoStatus
    /\ lastReply' = NoReply
    /\ lastFetch' = NoFetch
    /\ lastUpload' = NoUpload
    /\ UNCHANGED <<env, jar, peer, timers, store, pc, req, probed, results, control, files,
                   sidecars, serving>>

\* The 10 s timer of the probe after the close event: kill() of a process
\* that has exited, resolve() of a settled promise.
ProbeLateTimer ==
    /\ env = "events" /\ pc # "crashed"
    /\ "probe" \in timers
    /\ timers' = timers \ {"probe"}
    /\ status' = resolve(pc # "probe", status, "unknown")
    /\ lastClose' = NoClose
    /\ lastStatus' = NoStatus
    /\ lastReply' = NoReply
    /\ lastFetch' = NoFetch
    /\ lastUpload' = NoUpload
    /\ UNCHANGED <<env, jar, peer, store, pc, req, probed, results, control, disk, serving>>

\* yt-dlp cannot be started: the ChildProcess emits 'error', which none of
\* checkVideoStatus, downloadWithYtdlp and getVideoInfo listens for, so the
\* event is thrown as an uncaught exception and the server process exits.
SpawnError ==
    /\ env = "events"
    /\ proc.kind \in {"probe", "ytdlp", "info"} /\ proc.state = "running"
    /\ proc.kind = "ytdlp" => files[proc.out] = Absent
    /\ pc' = "crashed"
    /\ proc' = NoProc
    /\ lastClose' = NoClose
    /\ lastStatus' = NoStatus
    /\ lastReply' = NoReply
    /\ lastFetch' = NoFetch
    /\ lastUpload' = NoUpload
    /\ UNCHANGED <<env, jar, peer, timers, store, req, probed, status, results, cookieFile, calls,
                   first, sent, resp, uploads, videoInfo, disk, serving>>

\* await fetchCookiesFromBackend(platform) of the skip branch returns.
RefreshDone ==
    /\ pc = "refresh"
    /\ \E ans \in BackendAnswers :
         LET pcs == fetchCookiesFromBackend(platformCookies, RefreshPlatform(req.url), ans)
         IN /\ platformCookies' = pcs
            /\ lastFetch' = FetchOf(RefreshPlatform(req.url), ans)
            /\ ChooseAdapter(pcs)
    /\ lastClose' = NoClose
    /\ lastStatus' = NoStatus
    /\ lastReply' = NoReply
    /\ UNCHANGED <<env, jar, peer, timers, now, loadIdx, submits, req, probed, status, results, disk, serving>>

\* ------------------------------------------------------- yt-dlp subprocess
\* The extractor writes (or rewrites) its output file.
YtdlpWrite ==
    /\ proc.kind = "ytdlp"
    /\ \E size \in SizesOf(env) : files' = [files EXCEPT ![proc.out] = size]
    /\ lastClose' = NoClose
    /\ lastStatus' = NoStatus
    /\ lastReply' = NoReply
    /\ lastFetch' = NoFetch
    /\ lastUpload' = NoUpload
    /\ UNCHANGED <<env, jar, peer, timers, store, request, results, control, sidecars, killed, serving>>

\* The extractor writes the .info.json of --write-info-json.
YtdlpWriteSidecar ==
    /\ env \in {"files", "pair"}
    /\ proc.kind = "ytdlp"
    /\ \E content \in {"good", "bad"} :
         sidecars' = [sidecars EXCEPT ![proc.out[2]] = content]
    /\ lastClose' = NoClose
    /\ lastStatus' = NoStatus
    /\ lastReply' = NoReply
    /\ lastFetch' = NoFetch
    /\ lastUpload' = NoUpload
    /\ UNCHANGED <<env, jar, peer, timers, store, request, results, control, files, killed, serving>>

\* ytdlp.on('close') before the timer: downloadWithYtdlp returns.
YtdlpClose ==
    /\ proc.kind = "ytdlp"
    /\ \E code \in ExitCodes, errorOutput \in SUBSET YtdlpPhrasesOf(env),
          pick \in SidecarPicks(sidecars, proc.out) :
         LET o == YtdlpOnClose(code, errorOutput, proc.out, files, sidecars, pick)
         IN /\ files' = o.files
            /\ sidecars' = o.sidecars
            /\ lastClose' = CloseOf(proc, code, files, FALSE)
            /\ lastStatus' = NoStatus
            /\ lastReply' = NoReply
            /\ lastFetch' = NoFetch
            /\ AfterYtdlp(o.result, o.files)
    /\ UNCHANGED <<env, jar, peer, timers, store, req, probed, status, killed, serving>>

\* The 5 min timer of downloadWithYtdlp fires first: kill, and return a timeout.
YtdlpTimeout ==
    /\ proc.kind = "ytdlp" /\ proc.timer > 0
    /\ killed' = killed \cup {Killed(proc)}
    /\ AfterYtdlp(Failure("Download timed out"), files)
    /\ lastClose' = NoClose
    /\ lastStatus' = NoStatus
    /\ lastReply' = NoReply
    /\ lastFetch' = NoFetch
    /\ UNCHANGED <<env, jar, peer, timers, store, req, probed, status, files, sidecars, serving>>

\* ytdlp.on('close') after the timer: the promise is settled, the handler's
\* file operations still run.
YtdlpLateClose ==
    /\ env = "files"
    /\ \E k \in killed :
        /\ k.kind = "ytdlp"
        /\ \E code \in ExitCodes, pick \in SidecarPicks(sidecars, k.out) :
             LET o == YtdlpOnClose(code, {}, k.out, files, sidecars, pick)
             IN /\ files' = o.files
                /\ sidecars' = o.sidecars
                /\ lastClose' = CloseOf(k, code, files, TRUE)
                /\ lastStatus' = NoStatus
                /\ lastReply' = NoReply
                /\ lastFetch' = NoFetch
                /\ lastUpload' = NoUpload
        /\ killed' = killed \ {k}
    /\ UNCHANGED <<env, jar, peer, timers, store, request, results, control, serving>>

\* --------------------------------------------------- Cobalt and its transfer
\* The resolver answers (or the fetch fails, or is aborted after 90 s).
CobaltResponse ==
    /\ pc = "cobalt_fetch"
    /\ \E ans \in CobaltAnswersOf(env) :
         IF CobaltAnswerError(ans) # "none"
         THEN AfterCobalt(Failure(CobaltAnswerError(ans)))
         ELSE /\ pc' = "cobalt_curl"
              /\ proc' = Process("curl", CobaltFilename(ans, now), NoPlatform, ans.flagged)
              /\ lastUpload' = NoUpload
              /\ UNCHANGED <<results, cookieFile, calls, first, sent, resp, uploads,
                             videoInfo>>
    /\ lastClose' = NoClose
    /\ lastStatus' = NoStatus
    /\ lastReply' = NoReply
    /\ lastFetch' = NoFetch
    /\ UNCHANGED <<env, jar, peer, timers, store, req, probed, status, disk, serving>>

\* curl writes (or rewrites) its output file.
CurlWrite ==
    /\ proc.kind = "curl" /\ proc.state \in {"running", "writing"}
    /\ \E size \in SizesOf(env) : files' = [files EXCEPT ![proc.out] = size]
    /\ proc' = [proc EXCEPT !.state = "writing"]
    /\ lastClose' = NoClose
    /\ lastStatus' = NoStatus
    /\ lastReply' = NoReply
    /\ lastFetch' = NoFetch
    /\ lastUpload' = NoUpload
    /\ UNCHANGED <<env, jar, peer, timers, store, request, results, cookieFile, calls, first, sent, resp, uploads,
                   videoInfo, sidecars, killed, serving>>

\* curlProcess.on('error'): curl could not be started.
CurlError ==
    /\ proc.kind = "curl" /\ proc.state = "running"
    /\ AfterCobalt(Failure("curl spawn error"))
    /\ lastClose' = NoClose
    /\ lastStatus' = NoStatus
    /\ lastReply' = NoReply
    /\ lastFetch' = NoFetch
    /\ UNCHANGED <<env, jar, peer, timers, store, req, probed, status, disk, serving>>

\* curlProcess.on('close') before the timer.
CurlClose ==
    /\ proc.kind = "curl" /\ proc.state \in {"running", "writing"}
    /\ \E code \in ExitCodes :
         LET o == CurlOnClose(code, proc.out, proc.skipped, files)
         IN /\ files' = o.files
            /\ lastClose' = CloseOf(proc, code, files, FALSE)
            /\ lastStatus' = NoStatus
            /\ lastReply' = NoReply
            /\ lastFetch' = NoFetch
            /\ IF o.resolved
               THEN AfterCobalt(o.result)
               ELSE /\ proc' = [proc EXCEPT !.state = "closed"]
                    /\ lastUpload' = NoUpload
                    /\ UNCHANGED <<pc, results, cookieFile, calls, first, sent, resp,
                                   uploads, videoInfo>>
    /\ UNCHANGED <<env, jar, peer, timers, store, req, probed, status, sidecars, killed, serving>>

\* The 5 min timer of downloadWithCobalt fires with the promise unsettled:
\* kill, and return a timeout.
CurlTimeout ==
    /\ proc.kind = "curl" /\ proc.timer > 0
    /\ killed' = IF proc.state # "closed" THEN killed \cup {Killed(proc)} ELSE killed
    /\ AfterCobalt(Failure("Cobalt download timed out"))
    /\ lastClose' = NoClose
    /\ lastStatus' = NoStatus
    /\ lastReply' = NoReply
    /\ lastFetch' = NoFetch
    /\ UNCHANGED <<env, jar, peer, timers, store, req, probed, status, files, sidecars, serving>>

\* curlProcess.on('close') after the timer.
CurlLateClose ==
    /\ env = "files"
    /\ \E k \in killed :
        /\ k.kind = "curl"
        /\ \E code \in ExitCodes :
             LET o == CurlOnClose(code, k.out, k.skipped, files)
             IN /\ files' = o.files
                /\ lastClose' = CloseOf(k, code, files, TRUE)
                /\ lastStatus' = NoStatus
                /\ lastReply' = NoReply
                /\ lastFetch' = NoFetch
                /\ lastUpload' = NoUpload
        /\ killed' = killed \ {k}
    /\ UNCHANGED <<env, jar, peer, timers, store, request, results, control, sidecars, serving>>

\* getVideoInfo returns: the metadata, or null (exit code, parse error, 15 s timer).
InfoDone ==
    /\ pc = "cobalt_info"
    /\ \E info \in BOOLEAN :
         StartUpload("upload_cobalt", "cobalt", cobaltResult, files,
                     IF info THEN InfoMeta ELSE NoMeta)
    /\ lastClose' = NoClose
    /\ lastStatus' = NoStatus
    /\ lastReply' = NoReply
    /\ lastFetch' = NoFetch
    /\ UNCHANGED <<env, jar, peer, timers, store, req, probed, status, results, disk, serving>>

\* The storage backend answers (or the fetch fails): the success response.
UploadDone ==
    /\ pc \in {"upload_first", "upload_cobalt", "upload_fallback"}
    /\ \E ans \in UploadAnswers :
         LET result == IF pc = "upload_first" THEN ytdlpFirst
                       ELSE IF pc = "upload_cobalt" THEN cobaltResult
                       ELSE ytdlpResult
             method == IF pc = "upload_cobalt" THEN "cobalt" ELSE "yt-dlp"
             driveResult == uploadToDriveViaBackend(ans, result.filename, files)
         IN /\ files' = driveResult.files
            /\ pc' = "done"
            /\ proc' = NoProc
            /\ resp' = SuccessResponse(method, result, driveResult.success, videoInfo)
            /\ sent' = sent + 1
            /\ lastUpload' = ans
            /\ UNCHANGED <<cookieFile, calls, first, uploads, videoInfo>>
    /\ lastClose' = NoClose
    /\ lastStatus' = NoStatus
    /\ lastReply' = NoReply
    /\ lastFetch' = NoFetch
    /\ UNCHANGED <<env, jar, peer, timers, store, req, probed, status, results, sidecars, killed, serving>>

\* --------------------------------------------------- GET /api/file/:filename
\* The handler: 404, or 400 and unlink, or the transfer starts.
ServeFile ==
    /\ env = "serve"
    /\ serves < MaxServes
    /\ serves' = serves + 1
    /\ \E name \in FileNames :
         /\ IF files[name] = Absent
            THEN UNCHANGED <<files, transfers>>
            ELSE IF ~ServeSizeOk(files[name])
            THEN /\ files' = [files EXCEPT ![name] = Absent]
                 /\ UNCHANGED transfers
            ELSE /\ transfers' = transfers \cup {<<name, serves>>}
                 /\ UNCHANGED files
         /\ lastReply' = [route |-> "file",
                          status |-> IF files[name] = Absent THEN 404
                                     ELSE IF ~ServeSizeOk(files[name]) THEN 400
                                     ELSE 200,
                          name |-> name, platform |-> NoPlatform, cookies |-> NoCookies,
                          text |-> IF files[name] = Absent \/ ~ServeSizeOk(files[name])
                                   THEN "error" ELSE "none"]
    /\ lastClose' = NoClose
    /\ lastStatus' = NoStatus
    /\ lastFetch' = NoFetch
    /\ lastUpload' = NoUpload
    /\ UNCHANGED <<env, jar, peer, timers, store, request, results, control, sidecars, killed, deleteTimers>>

\* The callback of res.download: the deletion timer is set when there was no error.
TransferDone ==
    /\ \E t \in transfers, err \in BOOLEAN :
         /\ transfers' = transfers \ {t}
         /\ deleteTimers' = IF err THEN deleteTimers ELSE deleteTimers \cup {t}
    /\ lastClose' = NoClose
    /\ lastStatus' = NoStatus
    /\ lastReply' = NoReply
    /\ lastFetch' = NoFetch
    /\ lastUpload' = NoUpload
    /\ UNCHANGED <<env, jar, peer, timers, store, request, results, control, disk, serves>>

\* The 5 s timer: unlink the file if it is still there.
DeleteTimer ==
    /\ \E t \in deleteTimers :
         /\ deleteTimers' = deleteTimers \ {t}
         /\ files' = [files EXCEPT ![t[1]] = Absent]
         /\ lastReply' = [route |-> "timer", status |-> 0, name |-> t[1],
                          platform |-> NoPlatform, cookies |-> NoCookies, text |-> "none"]
    /\ lastClose' = NoClose
    /\ lastStatus' = NoStatus
    /\ lastFetch' = NoFetch
    /\ lastUpload' = NoUpload
    /\ UNCHANGED <<env, jar, peer, timers, store, request, results, control, sidecars, killed, serves,
                   transfers>>

\* ------------------------------------------------------------------ Spec
Next ==
    \/ Tick
    \/ SubmitCookies
    \/ Receive
    \/ ProbeClose
    \/ ProbeTimeout
    \/ RefreshDone
    \/ YtdlpWrite
    \/ YtdlpWriteSidecar
    \/ YtdlpClose
    \/ YtdlpTimeout
    \/ YtdlpLateClose
    \/ CobaltResponse
    \/ CurlWrite
    \/ CurlError
    \/ CurlClose
    \/ CurlTimeout
    \/ CurlLateClose
    \/ InfoDone
    \/ UploadDone

Spec == Init /\ [][Next]_vars

\* A download request with GET /api/file requests arriving at any time; the
\* 5 s deletion timers fire.
NextServe ==
    \/ Receive
    \/ ProbeClose
    \/ ProbeTimeout
    \/ YtdlpWrite
    \/ YtdlpClose
    \/ YtdlpTimeout
    \/ CobaltResponse
    \/ CurlWrite
    \/ CurlError
    \/ CurlClose
    \/ CurlTimeout
    \/ InfoDone
    \/ ServeFile
    \/ TransferDone
    \/ DeleteTimer

SpecServe == InitServe /\ [][NextServe]_vars /\ WF_vars(DeleteTimer)

\* The credential store under all its writers and readers: the startup load,
\* POST /api/cookies, GET /api/cookies/status and a download request up to
\* the start of its first adapter.
NextStore ==
    \/ Tick
    \/ LoadCookies
    \/ SubmitCookies
    \/ GetCookieStatus
    \/ GetHealth
    \/ Receive
    \/ ProbeClose
    \/ ProbeTimeout
    \/ RefreshDone

SpecStore == InitStore /\ [][NextStore]_vars

\* ------------------------------------------------ createCookieFile alone
\* createCookieFile(platform, cookieString), once, on any cookie string.
CreateCookieJar ==
    /\ env = "jar" /\ jar = NoJar
    /\ \E platform \in Platforms, cookieString \in JarStrings :
         jar' = [platform |-> platform, cookieString |-> cookieString,
                 lines |-> cookieFileLines(platform, cookieString, now)]
    /\ lastClose' = NoClose
    /\ lastStatus' = NoStatus
    /\ lastReply' = NoReply
    /\ lastFetch' = NoFetch
    /\ lastUpload' = NoUpload
    /\ UNCHANGED <<env, peer, timers, store, request, results, control, disk, serving>>

NextJar == CreateCookieJar

SpecJar == InitJar /\ [][NextJar]_vars

\* ------------------------------------------- a second download request
\* downloadWithYtdlp of the other request: its output path is named by the
\* clock.
PeerStartYtdlp ==
    /\ env \in {"pair", "share"} /\ peer = NoProc
    /\ \E url \in PeerUrlsOf(env) :
         LET platform == YtdlpCookiePlatform(platformCookies, url, now)
         IN /\ cookieFile' = IF platform = NoPlatform THEN cookieFile
                             ELSE createCookieFile(cookieFile, platform,
                                                   platformCookies[platform].cookies)
            /\ peer' = Process("ytdlp", VideoName(now), platform, FALSE)
    /\ lastClose' = NoClose
    /\ lastStatus' = NoStatus
    /\ lastReply' = NoReply
    /\ lastFetch' = NoFetch
    /\ lastUpload' = NoUpload
    /\ UNCHANGED <<env, jar, timers, store, request, results, proc, calls, first, sent, resp,
                   uploads, videoInfo, disk, serving>>

\* downloadWithCobalt of the other request: its output path is named by the
\* resolver, or by the clock.
PeerStartCurl ==
    /\ env = "pair" /\ peer = NoProc
    /\ \E ans \in CobaltAnswers :
         /\ CobaltAnswerError(ans) = "none"
         /\ peer' = Process("curl", CobaltFilename(ans, now), NoPlatform, ans.flagged)
    /\ lastClose' = NoClose
    /\ lastStatus' = NoStatus
    /\ lastReply' = NoReply
    /\ lastFetch' = NoFetch
    /\ lastUpload' = NoUpload
    /\ UNCHANGED <<env, jar, timers, store, request, results, control, disk, serving>>

\* The subprocess of the other request writes its output file.
PeerWrite ==
    /\ env = "pair" /\ peer # NoProc
    /\ \E size \in SizesOf(env) : files' = [files EXCEPT ![peer.out] = size]
    /\ lastClose' = NoClose
    /\ lastStatus' = NoStatus
    /\ lastReply' = NoReply
    /\ lastFetch' = NoFetch
    /\ lastUpload' = NoUpload
    /\ UNCHANGED <<env, jar, peer, timers, store, request, results, control, sidecars, killed,
                   serving>>

\* The extractor of the other request writes its .info.json.
PeerWriteSidecar ==
    /\ env = "pair" /\ peer.kind = "ytdlp"
    /\ \E content \in {"good", "bad"} :
         sidecars' = [sidecars EXCEPT ![peer.out[2]] = content]
    /\ lastClose' = NoClose
    /\ lastStatus' = NoStatus
    /\ lastReply' = NoReply
    /\ lastFetch' = NoFetch
    /\ lastUpload' = NoUpload
    /\ UNCHANGED <<env, jar, peer, timers, store, request, results, control, files, killed,
                   serving>>

\* The close handler of the other request's subprocess.
PeerClose ==
    /\ env \in {"pair", "share"} /\ peer # NoProc
    /\ \E code \in ExitCodes :
         IF peer.kind = "ytdlp"
         THEN \E pick \in SidecarPicks(sidecars, peer.out) :
                LET o == YtdlpOnClose(code, {}, peer.out, files, sidecars, pick)
                IN files' = o.files /\ sidecars' = o.sidecars
         ELSE /\ files' = CurlOnClose(code, peer.out, peer.skipped, files).files
              /\ UNCHANGED sidecars
    /\ peer' = NoProc
    /\ lastClose' = NoClose
    /\ lastStatus' = NoStatus
    /\ lastReply' = NoReply
    /\ lastFetch' = NoFetch
    /\ lastUpload' = NoUpload
    /\ UNCHANGED <<env, jar, timers, store, request, results, control, killed, serving>>

\* Two download requests at once.
NextPair ==
    \/ Tick
    \/ Receive
    \/ ProbeClose
    \/ ProbeTimeout
    \/ YtdlpWrite
    \/ YtdlpWriteSidecar
    \/ YtdlpClose
    \/ YtdlpTimeout
    \/ CobaltResponse
    \/ CurlWrite
    \/ CurlError
    \/ CurlClose
    \/ CurlTimeout
    \/ InfoDone
    \/ PeerStartYtdlp
    \/ PeerStartCurl
    \/ PeerWrite
    \/ PeerWriteSidecar
    \/ PeerClose

SpecPair == InitPair /\ [][NextPair]_vars

\* Two download requests for Instagram URLs and a POST /api/cookies.
NextShare ==
    \/ SubmitCookies
    \/ Receive
    \/ RefreshDone
    \/ YtdlpWrite
    \/ YtdlpClose
    \/ YtdlpTimeout
    \/ CobaltResponse
    \/ CurlWrite
    \/ CurlError
    \/ CurlClose
    \/ CurlTimeout
    \/ InfoDone
    \/ PeerStartYtdlp
    \/ PeerClose

SpecShare == InitShare /\ [][NextShare]_vars

\* A download request with every event of its subprocesses.
NextEvents ==
    \/ Receive
    \/ ProbeClose
    \/ ProbeTimeout
    \/ ProbeLateClose
    \/ ProbeLateTimer
    \/ SpawnError
    \/ RefreshDone
    \/ YtdlpWrite
    \/ YtdlpClose
    \/ YtdlpTimeout
    \/ CobaltResponse
    \/ CurlWrite
    \/ CurlError
    \/ CurlClose
    \/ CurlTimeout
    \/ InfoDone
    \/ UploadDone

SpecEvents == InitEvents /\ [][NextEvents]_vars

\* What the code bounds by a timer or an abort signal: the probe (10 s), the
\* extractor and the transfer (5 min), the metadata lookup (15 s), the
\* resolver call (90 s abort) and the hand-off (5 min abort).  The refresh,
\* fetchFromBackend without signal or timer, has no such bound and gets no
\* fairness.
Bounded ==
    /\ WF_vars(ProbeTimeout)
    /\ WF_vars(YtdlpTimeout)
    /\ WF_vars(CurlTimeout)
    /\ WF_vars(InfoDone)
    /\ WF_vars(CobaltResponse)
    /\ WF_vars(UploadDone)

SpecLive == SpecEvents /\ Bounded

\* ------------------------------------------------------------ properties
\* A step of the download handler, or of the event it waits for.
HandlerStep ==
    \/ ProbeClose \/ ProbeTimeout \/ RefreshDone
    \/ YtdlpClose \/ YtdlpTimeout
    \/ CobaltResponse \/ CurlError \/ CurlClose \/ CurlTimeout
    \/ InfoDone \/ UploadDone

C2_AtMostOneCallEach ==
    calls.cobalt <= 1 /\ calls.ytdlp <= 1 /\ calls.cobalt + calls.ytdlp <= 2

\* C3: after the probe has run, a private, geo-blocked, removed or unavailable
\* status is answered with that variant and nothing else is started (no
\* adapter, no subprocess output, no upload); an available or unknown status
\* leads to a first adapter and is never answered with a probe variant.
C3_ProbeGatesAdapters ==
    probed /\ pc # "probe" =>
        /\ status \in {"private", "geo-blocked", "removed", "unavailable"} =>
              /\ pc = "done" /\ sent = 1 /\ resp.status = status
              /\ first = "none" /\ calls.cobalt = 0 /\ calls.ytdlp = 0
              /\ uploads = 0 /\ proc = NoProc /\ killed = {}
              /\ \A f \in FileNames : files[f] = Absent
        /\ status \in {"available", "unknown"} =>
              /\ first # "none" /\ calls.cobalt + calls.ytdlp >= 1
              /\ resp.status \notin {"private", "geo-blocked", "removed", "unavailable"}
        /\ status \in {"private", "geo-blocked", "removed", "unavailable", "available",
                       "unknown"}
C3_Witness == probed /\ status = "unavailable" /\ sent = 1

\* C4 (as claimed): at the step that chooses the first adapter, yt-dlp is
\* chosen iff the URL's platform (instagram, twitter, youtube) holds material
\* with now < expiresAt in the store as the step leaves it.
C4_Original ==
    [][first = "none" /\ first' # "none" =>
        LET p == RefreshPlatform(req.url)
            usable == /\ p # NoPlatform
                      /\ platformCookies'[p].cookies # NoCookies
                      /\ now < platformCookies'[p].expiresAt
        IN (first' = "yt-dlp") <=> usable]_vars

\* C4 (amended): at the step that chooses the first adapter, yt-dlp is chosen
\* iff the URL is an Instagram URL and the store holds Instagram material, or
\* a Twitter URL and the store holds Twitter material, expired or not; every
\* other request (YouTube with a usable credential included) starts with Cobalt.
C4_FirstAdapter ==
    [][first = "none" /\ first' # "none" =>
        /\ first' \in {"yt-dlp", "cobalt"}
        /\ (first' = "yt-dlp") <=>
              \/ req.url.ig /\ platformCookies'["instagram"].cookies # NoCookies
              \/ req.url.tw /\ platformCookies'["twitter"].cookies # NoCookies]_vars
C4_Witness ==
    /\ first = "cobalt" /\ pc = "cobalt_fetch" /\ calls.ytdlp = 0 /\ ~probed
    /\ req.url.yt /\ platformCookies["youtube"].cookies # NoCookies
    /\ now < platformCookies["youtube"].expiresAt

C6_Validation ==
    lastClose.kind \in {"ytdlp", "curl"} /\ lastClose.code = 0 /\ lastClose.size # Absent =>
        LET floor == IF lastClose.kind = "curl" THEN COBALT_MIN_SIZE ELSE YTDLP_MIN_SIZE
        IN IF lastClose.size = 0 \/ lastClose.size < floor
           THEN files[lastClose.out] = Absent
           ELSE files[lastClose.out] = lastClose.size

\* C7 (as claimed): for the size of any finished download, the size check of
\* downloadWithCobalt, that of downloadWithYtdlp and that of GET /api/file
\* give the same verdict.
C7_SameVerdict ==
    lastClose.kind \in {"ytdlp", "curl"} /\ lastClose.code = 0 /\ lastClose.size # Absent =>
        /\ (lastClose.size = 0 \/ lastClose.size < COBALT_MIN_SIZE)
              <=> (lastClose.size = 0 \/ lastClose.size < YTDLP_MIN_SIZE)
        /\ (lastClose.size = 0 \/ lastClose.size < YTDLP_MIN_SIZE)
              <=> (lastClose.size = 0 \/ lastClose.size < SERVE_MIN_SIZE)

\* C8: a success response, and every success an adapter returns, is for a
\* file with a size above 0 and at or above the adapter's floor; and the close
\* event that made an adapter return success had exit code 0 and found the
\* file with exactly that size.
C8_SuccessIsValidated ==
    /\ resp.status = "success" =>
          /\ resp.filename # NoFile /\ resp.size > 0
          /\ resp.method \in {"cobalt", "yt-dlp"}
          /\ resp.size >= (IF resp.method = "cobalt" THEN COBALT_MIN_SIZE ELSE YTDLP_MIN_SIZE)
    /\ \A r \in {ytdlpFirst, cobaltResult, ytdlpResult} :
          r.success =>
              /\ r.filename # NoFile /\ r.size > 0
              /\ r.size >= (IF r.method = "cobalt" THEN COBALT_MIN_SIZE ELSE YTDLP_MIN_SIZE)
    /\ lastClose.kind = "curl" /\ ~lastClose.late /\ cobaltResult.success =>
          /\ lastClose.code = 0
          /\ lastClose.out = cobaltResult.filename /\ lastClose.size = cobaltResult.size
    /\ lastClose.kind = "ytdlp" /\ ~lastClose.late =>
          LET r == IF ytdlpResult.done THEN ytdlpResult ELSE ytdlpFirst
          IN r.success => /\ lastClose.code = 0
                          /\ lastClose.out = r.filename /\ lastClose.size = r.size
C8_Witness ==
    resp.status = "success" /\ resp.method = "yt-dlp" /\ resp.size = YTDLP_MIN_SIZE

\* C9: the method of a success response is the adapter that wrote the file
\* the response names (yt-dlp writes video_<t>.mp4, the Cobalt transfer the
\* name of the resolver or cobalt_<t>.mp4), and filename and size are those
\* of that adapter's successful result.
C9_MethodIsProducer ==
    resp.status = "success" =>
        /\ resp.method = (IF resp.filename[1] = "video" THEN "yt-dlp" ELSE "cobalt")
        /\ resp.method = "cobalt" =>
              /\ cobaltResult.success /\ cobaltResult.method = "cobalt"
              /\ resp.filename = cobaltResult.filename /\ resp.size = cobaltResult.size
        /\ resp.method = "yt-dlp" =>
              LET r == IF ytdlpResult.done THEN ytdlpResult ELSE ytdlpFirst
              IN /\ r.success /\ r.method = "yt-dlp"
                 /\ resp.filename = r.filename /\ resp.size = r.size
        /\ resp.method \in {"cobalt", "yt-dlp"}
C9_Witness ==
    resp.status = "success" /\ resp.method = "yt-dlp" /\ first = "cobalt"
    /\ "cobalt" \in failed

\* C10 (as claimed): the handler answers needs-extension iff both adapters
\* were invoked and both have returned a failure, and then the body carries
\* the error of each adapter's failed result.
C10_NeedsExtension ==
    pc = "done" =>
        /\ (resp.status = "needs-extension")
              <=> (calls.cobalt >= 1 /\ calls.ytdlp >= 1 /\ failed = {"cobalt", "yt-dlp"})
        /\ resp.status = "needs-extension" =>
              /\ resp.cobaltError = cobaltResult.error /\ cobaltResult.error # "none"
              /\ resp.ytdlpError = ytdlpResult.error /\ ytdlpResult.error # "none"

\* C11 (as claimed): the needs-extension body carries the credentials hint
\* exactly when the URL is of a credential-bearing platform (youtube,
\* instagram, twitter) whose entry holds no material or has expired
\* (expiresAt <= now); with a usable entry, or a URL of no such platform, it
\* carries none.
C11_HintIffNoUsableCredential ==
    [][sent' = sent + 1 /\ resp'.status = "needs-extension" =>
          LET platform == RefreshPlatform(req.url)
          IN resp'.needsCookies <=>
                /\ platform # NoPlatform
                /\ \/ ~hasCookies(platformCookies, platform)
                   \/ platformCookies[platform].expiresAt <= now]_vars

\* C12: whenever uploadToDriveViaBackend has returned (before its fetch for
\* want of userId/contentHash or of the file, or after it with the backend
\* unreachable, a non-OK status, a body that is not JSON, success false, the
\* skipped flag, or success), the request ends with the success response of
\* the adapter's file; driveUploaded is true only if the backend answered
\* success without the skipped flag, and false after every other outcome.
C12_HandOffNeverFails ==
    lastUpload # NoUpload =>
        /\ pc = "done" /\ sent = 1
        /\ resp.status = "success" /\ resp.success
        /\ resp.method \in {"cobalt", "yt-dlp"} /\ resp.filename # NoFile
        /\ resp.driveUploaded => lastUpload = "ok"
        /\ lastUpload \in {"no ids", "no file"} \cup (UploadAnswers \ {"ok"})
              => ~resp.driveUploaded
C12_Witness ==
    lastUpload = "skipped" /\ resp.status = "success" /\ ~resp.driveUploaded

\* C13 (as claimed): the probe runs iff the URL is not of Instagram or
\* Twitter and the store holds no usable credential for its platform
\* (material with now < expiresAt), so that a platform with only an expired
\* credential is probed; when the probe is skipped the refresh comes before
\* any adapter and its failure does not end the request.
C13_Original ==
    [][/\ pc = "idle" /\ pc' # "idle" =>
             /\ pc' = "probe" <=>
                   /\ ~isInstagram(req'.url) /\ ~isTwitter(req'.url)
                   /\ ~(/\ isYoutube(req'.url)
                        /\ hasCookies(platformCookies', "youtube")
                        /\ now < platformCookies'["youtube"].expiresAt)
             /\ pc' # "probe" => pc' = "refresh" /\ calls' = calls /\ sent' = sent
       /\ pc = "refresh" /\ pc' # "refresh" =>
             /\ lastFetch'.platform = RefreshPlatform(req.url)
             /\ pc' \in {"ytdlp_first", "cobalt_fetch"} /\ sent' = sent]_vars

\* C13 (amended): the probe runs iff the URL is not of Instagram or Twitter
\* and, for a YouTube URL, the store holds no YouTube cookies at all, expired
\* or not; otherwise the handler goes to the refresh with no adapter called
\* and no response sent, and whatever the refresh returns, the next step
\* starts the first adapter without a response.
C13_ProbeOrRefresh ==
    [][/\ pc = "idle" /\ pc' # "idle" =>
             /\ pc' = "probe" <=>
                   /\ ~isInstagram(req'.url) /\ ~isTwitter(req'.url)
                   /\ ~(isYoutube(req'.url) /\ hasCookies(platformCookies', "youtube"))
             /\ pc' # "probe" =>
                   /\ pc' = "refresh" /\ sent' = 0
                   /\ calls' = [cobalt |-> 0, ytdlp |-> 0]
       /\ pc = "refresh" /\ pc' # "refresh" =>
             /\ lastFetch'.platform = RefreshPlatform(req.url)
             /\ pc' \in {"ytdlp_first", "cobalt_fetch"}
             /\ sent' = sent
             /\ calls = [cobalt |-> 0, ytdlp |-> 0]
             /\ calls'.cobalt + calls'.ytdlp = 1]_vars
C13_Witness ==
    /\ pc = "refresh" /\ ~probed /\ isYoutube(req.url)
    /\ hasCookies(platformCookies, "youtube")
    /\ platformCookies["youtube"].expiresAt <= now
    /\ sent = 0

\* C14 (as claimed): when the request carries cookies and its URL is of
\* youtube, instagram or twitter, the handler overwrites that platform's
\* entry with the cookies, syncedAt = now and expiresAt = now + 90 days in
\* its first step, before the probe decision, the refresh and the adapters;
\* for every other request the store is left as it was.
C14_InlineOverwrite ==
    [][pc = "idle" /\ pc' # "idle" =>
          LET platform == RefreshPlatform(req'.url)
          IN IF req'.cookies # NoCookies /\ platform # NoPlatform
             THEN platformCookies' =
                      [platformCookies EXCEPT ![platform] =
                          [cookies |-> req'.cookies, syncedAt |-> now,
                           expiresAt |-> now + INLINE_EXPIRY_DAYS * Day]]
             ELSE platformCookies' = platformCookies]_vars

\* C15: POST /api/cookies replaces the platform's entry whole: after the
\* step the entry holds exactly the submitted cookies with syncedAt = now and
\* expiresAt = now + the platform's window, whatever it held before (so the
\* second of two submissions for a platform leaves only its own triple), and
\* the entries of the other platforms are as they were.
C15_LastSubmitWins ==
    [][submits' = submits + 1 =>
          \E platformKey \in Platforms, cookies \in SubmitMaterial :
              platformCookies' =
                  [platformCookies EXCEPT ![platformKey] =
                      [cookies |-> cookies, syncedAt |-> now,
                       expiresAt |-> now + COOKIE_EXPIRY_DAYS[platformKey] * Day]]]_vars
C15_Witness ==
    /\ submits = 2 /\ loadIdx = 0 /\ pc = "idle" /\ now = 2
    /\ \E p \in Platforms :
          /\ platformCookies[p] =
                 [cookies |-> "c4", syncedAt |-> 2,
                  expiresAt |-> 2 + COOKIE_EXPIRY_DAYS[p] * Day]
          /\ \A q \in Platforms \ {p} : platformCookies[q] = EmptyEntry

\* C16: a call of fetchCookiesFromBackend that fails (backend unreachable,
\* body not JSON, success false, or no cookies in the body) leaves every
\* entry of the store as it was and returns null, and its caller goes on (the
\* startup load to its next platform, the download handler to its first
\* adapter); a call that succeeds returns the cookies and changes the entry
\* of its own platform only.
C16_FailedRefreshKeepsStore ==
    [][lastFetch'.platform # NoPlatform =>
          LET ok == /\ lastFetch'.kind = "json" /\ lastFetch'.success
                    /\ lastFetch'.cookies # NoCookies
          IN /\ IF ok
                THEN /\ lastFetch'.returned = lastFetch'.cookies
                     /\ platformCookies'[lastFetch'.platform].cookies = lastFetch'.cookies
                     /\ \A q \in Platforms \ {lastFetch'.platform} :
                            platformCookies'[q] = platformCookies[q]
                ELSE /\ lastFetch'.returned = NoCookies
                     /\ platformCookies' = platformCookies
             /\ \/ loadIdx' = loadIdx + 1 /\ pc' = pc
                \/ /\ pc = "refresh" /\ pc' \in {"ytdlp_first", "cobalt_fetch"}
                   /\ sent' = sent]_vars
C16_Witness ==
    /\ lastFetch.platform # NoPlatform
    /\ lastFetch.kind = "notjson"
    /\ lastFetch.returned = NoCookies
    /\ hasCookies(platformCookies, lastFetch.platform)
    /\ pc \in {"ytdlp_first", "cobalt_fetch"}

\* C17: under every interleaving of POST /api/cookies, the startup load, the
\* refresh and the inline overwrite with the readers, a step changes the
\* entry of at most one platform, and every entry is either empty or the
\* whole triple of one write: submitted cookies with syncedAt and
\* syncedAt + the platform's window, inline cookies with syncedAt and
\* syncedAt + 90 days, or the backend's cookies with the backend's syncedAt
\* and expiresAt; no entry mixes fields of two writes.
C17_WholeTriples ==
    [][/\ \A p, q \in Platforms :
             platformCookies'[p] # platformCookies[p]
             /\ platformCookies'[q] # platformCookies[q] => p = q
       /\ \A p \in Platforms :
             LET e == platformCookies'[p]
             IN \/ e = EmptyEntry
                \/ /\ e.cookies \in SubmitMaterial /\ e.syncedAt \in Time
                   /\ e.expiresAt = e.syncedAt + COOKIE_EXPIRY_DAYS[p] * Day
                \/ /\ e.cookies = "c2" /\ e.syncedAt \in Time
                   /\ e.expiresAt = e.syncedAt + INLINE_EXPIRY_DAYS * Day
                \/ e.cookies = "c1" /\ e.syncedAt = 1 /\ e.expiresAt \in {1, 2}
       /\ \A p \in Platforms :
             platformCookies'[p] # platformCookies[p] =>
                 \/ platformCookies'[p].cookies = "c1"
                 \/ platformCookies'[p].syncedAt = now]_vars
C17_Witness ==
    /\ platformCookies["twitter"].cookies = "c2"
    /\ platformCookies["youtube"].cookies = "c1"
    /\ platformCookies["instagram"].cookies \in SubmitMaterial
    /\ loadIdx = 3 /\ submits = 2 /\ pc = "refresh"

\* C18: whenever GET /api/cookies/status answers while the entry of a
\* platform is the one a POST /api/cookies wrote (no other write to the
\* platform since), the body reports that platform with synced true,
\* expired false, the entry's syncedAt and expiresAt, and a daysRemaining
\* equal to the platform's window (instagram 90, twitter 365, youtube 180)
\* or one day less.
C18_RoundTrip ==
    lastStatus.success =>
        \A p \in Platforms :
            platformCookies[p].cookies \in SubmitMaterial =>
                LET report == lastStatus.cookies[p]
                IN /\ report.synced /\ ~report.expired
                   /\ report.syncedAt = platformCookies[p].syncedAt
                   /\ report.expiresAt = platformCookies[p].expiresAt
                   /\ report.daysRemaining
                          \in {COOKIE_EXPIRY_DAYS[p] - 1, COOKIE_EXPIRY_DAYS[p]}
C18_Witness ==
    /\ lastStatus.success
    /\ platformCookies["twitter"].cookies \in SubmitMaterial
    /\ platformCookies["twitter"].syncedAt = 1 /\ now = 2
    /\ lastStatus.cookies["twitter"].daysRemaining = 365

\* C19 (as claimed): every entry that holds cookies has
\* expiresAt = syncedAt + the window of its platform (instagram 90 days,
\* twitter 365, youtube 180), whichever writer produced it.
C19_Original ==
    \A p \in Platforms :
        hasCookies(platformCookies, p) =>
            platformCookies[p].expiresAt
                = platformCookies[p].syncedAt + COOKIE_EXPIRY_DAYS[p] * Day

\* C19 (amended): an entry written by POST /api/cookies has
\* expiresAt = syncedAt + the window of its platform; an entry written from
\* the cookies of a download request has expiresAt = syncedAt + 90 days for
\* either platform; and an entry fetched from the credential backend has the
\* syncedAt and expiresAt the backend sent, whatever they are.
C19_ExpiryByWriter ==
    /\ \A p \in Platforms :
          LET e == platformCookies[p]
          IN /\ e.cookies \in SubmitMaterial =>
                    e.expiresAt = e.syncedAt + COOKIE_EXPIRY_DAYS[p] * Day
             /\ e.cookies = "c2" =>
                    e.expiresAt = e.syncedAt + INLINE_EXPIRY_DAYS * Day
    /\ lastFetch.returned # NoCookies =>
          platformCookies[lastFetch.platform] =
              [cookies |-> lastFetch.cookies, syncedAt |-> lastFetch.syncedAt,
               expiresAt |-> lastFetch.expiresAt]
C19_Witness ==
    /\ lastFetch.returned # NoCookies
    /\ lastFetch.platform = "youtube"
    /\ platformCookies["youtube"].expiresAt = platformCookies["youtube"].syncedAt
    /\ platformCookies["twitter"].cookies = "c2"
    /\ platformCookies["twitter"].expiresAt
           = platformCookies["twitter"].syncedAt + 90 * Day

\* C20: no step returns an entry that holds cookies to one that holds none:
\* POST /api/cookies, the startup load and the refresh (successful or failed),
\* the inline overwrite, the clock and the steps of a download request all
\* leave the cookies of such an entry non-null; and GET /api/cookies/status
\* reports every entry that holds cookies as synced, an entry past its
\* expiresAt with expired true and daysRemaining 0.
C20_MaterialStays ==
    [][/\ \A p \in Platforms :
             hasCookies(platformCookies, p) => hasCookies(platformCookies', p)
       /\ lastStatus'.success =>
             \A p \in Platforms :
                 hasCookies(platformCookies', p) =>
                     /\ lastStatus'.cookies[p].synced
                     /\ now' > platformCookies'[p].expiresAt =>
                           /\ lastStatus'.cookies[p].expired
                           /\ lastStatus'.cookies[p].daysRemaining = 0]_vars
C20_Witness ==
    /\ lastStatus.success
    /\ \E p \in Platforms :
          /\ hasCookies(platformCookies, p)
          /\ now > platformCookies[p].expiresAt
          /\ lastStatus.cookies[p].synced /\ lastStatus.cookies[p].expired

\* C21 (as claimed): once no extractor is running for the request (its
\* downloadWithYtdlp calls have returned), TEMP_DIR holds no cookie file: the
\* cookies written for an invocation do not outlive it.
C21_NoCookieFileLeft ==
    proc.kind # "ytdlp" => \A p \in Platforms : cookieFile[p] = NoCookies

\* C24 (as claimed): when the request has ended with a response other than
\* success, TEMP_DIR holds no video file and no .info.json sidecar of its
\* adapter invocations.
C24_NothingLeftAfterFailure ==
    pc = "done" /\ resp.status # "success" =>
        /\ \A f \in FileNames : files[f] = Absent
        /\ \A t \in Time : sidecars[t] = "absent"

\* C26: every subprocess the probe, the transfer and the extractor spawn
\* runs with its timer armed (10 s for the probe, 300 s for curl and for
\* yt-dlp), and a helper that returns its timeout result has killed its
\* subprocess in the same step (or, for the transfer, the subprocess had
\* already closed).
C26_TimeoutKills ==
    [][/\ proc'.kind = "probe" => proc'.timer = 10
       /\ proc'.kind \in {"curl", "ytdlp"} => proc'.timer = 300
       /\ pc = "probe" /\ pc' # "probe" /\ status' = "unknown" =>
             [kind |-> "probe", out |-> proc.out, skipped |-> proc.skipped] \in killed'
       /\ proc.kind = "ytdlp" /\ proc' # proc /\ lastClose' = NoClose =>
             [kind |-> "ytdlp", out |-> proc.out, skipped |-> proc.skipped] \in killed'
       /\ (/\ proc.kind = "curl" /\ cobaltResult' # cobaltResult
           /\ cobaltResult'.error = "Cobalt download timed out") =>
             \/ [kind |-> "curl", out |-> proc.out, skipped |-> proc.skipped] \in killed'
             \/ proc.state = "closed"]_vars
C26_Witness ==
    /\ status = "unknown"
    /\ \E k \in killed : k.kind = "probe"
    /\ \E k \in killed : k.kind = "curl"
    /\ \E k \in killed : k.kind = "ytdlp"
    /\ pc = "done"

\* C30: within a request the phases follow one another: no adapter has been
\* called and no hand-off made while the handler waits for the probe or the
\* refresh; an adapter call that is not the first is made only when the
\* adapter tried before it has returned a failure and no adapter a success;
\* uploadToDriveViaBackend is called only in a step in which (or after which)
\* an adapter's successful result is held, at most once, and never in a
\* request answered with anything but success; and the handler awaits one
\* thing at a time.
C30_PhasesInOrder ==
    [][/\ pc' \in {"idle", "probe", "refresh"} =>
             /\ calls' = [cobalt |-> 0, ytdlp |-> 0] /\ uploads' = 0
             /\ proc'.kind \in {"none", "probe"}
       /\ (calls' # calls /\ calls.cobalt + calls.ytdlp >= 1) =>
             /\ first \in failed'
             /\ ~ytdlpFirst'.success /\ ~cobaltResult'.success /\ ~ytdlpResult'.success
             /\ uploads' = 0
       /\ uploads' # uploads =>
             /\ uploads = 0 /\ uploads' = 1
             /\ calls' = calls
             /\ ytdlpFirst'.success \/ cobaltResult'.success \/ ytdlpResult'.success
       /\ (pc' = "done" /\ resp'.status # "success") => uploads' = 0
       /\ pc' \in {"upload_first", "upload_cobalt", "upload_fallback"} =>
             uploads' = 1 /\ proc'.kind = "none"]_vars
C30_Witness ==
    /\ pc = "done" /\ resp.status = "success" /\ uploads = 1
    /\ calls = [cobalt |-> 1, ytdlp |-> 2]
    /\ failed = {"cobalt", "yt-dlp"}
    /\ lastUpload = "ok"

\* C22 (as claimed): POST /api/cookies without platform, without cookies or
\* with a platform that is not one of instagram, twitter, youtube answers 400
\* and leaves the store as it was; any other body is answered with success
\* and the entry of the named platform alone is overwritten.
C22_Original ==
    [][lastReply'.route = "cookies" =>
          IF \/ lastReply'.platform = NoPlatform \/ lastReply'.cookies = NoCookies
             \/ lastReply'.platform \notin {"instagram", "twitter", "youtube"}
          THEN lastReply'.status = 400 /\ platformCookies' = platformCookies
          ELSE /\ lastReply'.status = 200
               /\ platformCookies' =
                      [platformCookies EXCEPT ![lastReply'.platform] =
                          [cookies |-> lastReply'.cookies, syncedAt |-> now,
                           expiresAt |-> now + COOKIE_EXPIRY_DAYS[lastReply'.platform] * Day]]]_vars

\* C22 (amended): the platform is compared in lower case: a body without
\* platform, without cookies or whose lower-cased platform is not one of
\* instagram, twitter, youtube is answered 400 with the store as it was; any
\* other body is answered with success and the entry of the lower-cased
\* platform alone is overwritten.
C22_SubmitValidation ==
    [][lastReply'.route = "cookies" =>
          LET key == IF lastReply'.platform = "Twitter" THEN "twitter"
                     ELSE lastReply'.platform
          IN IF \/ lastReply'.platform = NoPlatform \/ lastReply'.cookies = NoCookies
                \/ key \notin {"instagram", "twitter", "youtube"}
             THEN lastReply'.status = 400 /\ platformCookies' = platformCookies
             ELSE /\ lastReply'.status = 200
                  /\ platformCookies' =
                         [platformCookies EXCEPT ![key] =
                             [cookies |-> lastReply'.cookies, syncedAt |-> now,
                              expiresAt |-> now + COOKIE_EXPIRY_DAYS[key] * Day]]]_vars
C22_Witness ==
    /\ lastReply.route = "cookies" /\ lastReply.status = 400
    /\ lastReply.platform = "tiktok" /\ lastReply.cookies # NoCookies
    /\ submits = 1
    /\ \E p \in Platforms : hasCookies(platformCookies, p)

\* C28: the result of the probe is fixed by the first of its close event and
\* its 10 s timer.  A step that leaves the probe by the timer returns
\* "unknown" and kills the process; one that leaves it by the close event
\* returns the status classified from the output of the process; and the later
\* event of the two leaves the returned status, the position of the handler,
\* its adapter calls and its response as they were.
C28_FirstEventFixesProbe ==
    [][/\ (pc = "probe" /\ pc' # "probe" /\ killed' # killed)
            => /\ status' = "unknown"
               /\ Killed(proc) \in killed'
               /\ timers' = timers
       /\ (pc = "probe" /\ pc' \notin {"probe", "crashed"} /\ killed' = killed)
            => /\ "probe" \in timers'
               /\ \E errorOutput \in SUBSET ProbePhrases,
                     availability \in Availabilities, code \in ExitCodes :
                    status' = ProbeClassify(errorOutput, availability, code)
       /\ (probed /\ pc \notin {"idle", "probe"}) => status' = status
       /\ (pc # "probe" /\ \/ "probe" \in timers \ timers'
                           \/ \E k \in killed \ killed' : k.kind = "probe")
            => UNCHANGED <<pc, status, calls, first, sent, resp, proc, results>>
      ]_vars

\* The probe closed first with a classified status and its timer has fired
\* since.
C28_Witness ==
    /\ env = "events" /\ probed /\ pc \notin {"idle", "probe", "crashed"}
    /\ status \notin {"unknown", "none"}
    /\ "probe" \notin timers

\* C29: no failure of an external collaborator escapes a helper: whatever the
\* resolver, the subprocesses and the backends do, the server process is never
\* brought down by an uncaught exception, so the handler of the request stays
\* able to send its terminal response.
C29_NoFailureEscapes == pc # "crashed"

\* C27: every POST /api/download request that has been received eventually
\* gets its terminal response, when every timer and abort signal of the code
\* eventually fires (the one other end admitted is the server going down with
\* the request).
C27_EveryRequestAnswered == (pc # "idle") ~> (pc \in {"done", "crashed"})

\* C25: two download requests in flight never have the same artifact path:
\* the output path of the adapter subprocess of one differs from the output
\* path of the adapter subprocess of the other, for the time-stamped names of
\* both adapters and for the names the resolver gives.
C25_DistinctPaths ==
    (proc.out # NoFile /\ peer.out # NoFile) => proc.out # peer.out

\* C23: GET /api/file answers 404 exactly when the file is absent and then
\* changes nothing; answers 400 exactly when the file is there with size 0 or
\* below the 10 KB floor and then deletes it; otherwise starts a transfer and
\* leaves the file; a deletion timer is set only for a transfer that has
\* completed; and a file with a deletion timer set is eventually removed, also
\* when several requests for the same file overlap.
C23_ServeAndCleanUp ==
    /\ [][/\ lastReply'.route = "file" =>
               LET name == lastReply'.name
                   code == lastReply'.status
               IN /\ code \in {200, 400, 404}
                  /\ code = 404 <=> files[name] = Absent
                  /\ code = 400 <=> /\ files[name] # Absent
                                    /\ (files[name] = 0 \/ files[name] < SERVE_MIN_SIZE)
                  /\ code = 404 => files' = files /\ transfers' = transfers
                  /\ code = 400 => /\ files' = [files EXCEPT ![name] = Absent]
                                   /\ transfers' = transfers
                  /\ code = 200 => /\ files' = files
                                   /\ \E t \in transfers' \ transfers : t[1] = name
          /\ \A t \in deleteTimers' \ deleteTimers : t \in transfers \ transfers'
         ]_vars
    /\ \A name \in FileNames :
         (\E t \in deleteTimers : t[1] = name) ~> (files[name] = Absent)

\* The deletion timer of one request has removed the file while another
\* request for the same file is still being served or waits for its timer.
C23_Witness ==
    /\ lastReply.route = "timer"
    /\ files[lastReply.name] = Absent
    /\ \E t \in transfers \cup deleteTimers : t[1] = lastReply.name

\* C31: reading the credential status changes no entry of the store: a step
\* that answers GET /api/cookies/status or GET /api/health leaves the entry of
\* every platform as it was, whether it is usable, expired or never synced.
C31_StatusReadsOnly ==
    [][(lastStatus'.success \/ lastReply'.route = "health")
          => platformCookies' = platformCookies]_vars

\* GET /api/health has reported an expired entry beside a never-synced one,
\* and both are in the store as reported.
C31_Witness ==
    /\ lastReply.route = "health"
    /\ \E p, q \in Platforms :
         /\ lastStatus.cookies[p].synced /\ lastStatus.cookies[p].expired
         /\ platformCookies[p].cookies # NoCookies
         /\ ~lastStatus.cookies[q].synced
         /\ platformCookies[q] = EmptyEntry

\* C32: every failure answer of the HTTP surface carries its human-readable
\* text under the key message: an answer with status 400 or 404 has a
\* message field.
C32_FailuresCarryMessage ==
    lastReply.status \in {400, 404} => lastReply.text = "message"

\* C33: once the transfer subprocess has exited with code 0 and its output
\* file exists, Adapter A returns in that step, with success exactly when the
\* size is at or above the floor and with the file deleted otherwise; and it
\* reports a timeout only when the subprocess had not exited before the 5 min
\* timer fired, whatever other fields the resolver response has.
C33_ReturnsAtExit ==
    [][/\ (/\ lastClose'.kind = "curl" /\ ~lastClose'.late
           /\ lastClose'.code = 0 /\ lastClose'.size # Absent)
            => /\ pc' # "cobalt_curl"
               /\ cobaltResult'.success <=> lastClose'.size >= COBALT_MIN_SIZE
               /\ ~cobaltResult'.success => files'[lastClose'.out] = Absent
       /\ (/\ pc = "cobalt_curl" /\ pc' # "cobalt_curl"
           /\ cobaltResult'.error = "Cobalt download timed out")
            => proc.state # "closed"
      ]_vars

\* C34: the probe returns available only if the extractor exited with code 0,
\* reported an availability that is neither private nor needs_auth, and
\* printed none of the known phrases; and when the private branch does not
\* apply, a diagnostic with "not available in your country" gives geo-blocked
\* and one with "removed" gives removed, for every exit code.
C34_ProbeClassification ==
    lastClose.kind = "probe" =>
        LET eo == lastClose.errorOutput
            private == \/ "Private video" \in eo
                       \/ "Sign in to confirm your age" \in eo
                       \/ "Video unavailable" \in eo
                       \/ lastClose.availability \in {"private", "needs_auth"}
        IN /\ status = "available" =>
                /\ lastClose.code = 0
                /\ ~private
                /\ "not available in your country" \notin eo
                /\ "removed" \notin eo
           /\ (~private /\ "not available in your country" \in eo)
                => status = "geo-blocked"
           /\ (~private /\ "removed" \in eo /\ "not available in your country" \notin eo)
                => status = "removed"

\* C35: the metadata of a success result of Adapter B is read from the
\* sidecar of that same invocation, which is deleted in the step that returns
\* the result; and the close handler of an invocation neither reads nor
\* changes the sidecar of another invocation that is still running under a
\* different output name.
C35_OwnSidecarOnly ==
    [][(proc.kind = "ytdlp" /\ lastClose'.kind = "ytdlp" /\ ~lastClose'.late)
          => LET own == proc.out[2]
                 result == IF ytdlpFirst'.done /\ ~ytdlpFirst.done
                           THEN ytdlpFirst' ELSE ytdlpResult'
             IN /\ result.success =>
                     /\ result.meta \in {NoMeta, SidecarMeta(own)}
                     /\ result.meta = SidecarMeta(own) => sidecars'[own] = "absent"
                /\ (peer.kind = "ytdlp" /\ peer.out # proc.out)
                     => /\ sidecars'[peer.out[2]] = sidecars[peer.out[2]]
                        /\ result.meta # SidecarMeta(peer.out[2])]_vars

\* C36: the cookie file has, in the order of the cookie string, one line
\* (domain, TRUE, /, TRUE, expiry, name, value) for every ';'-separated pair
\* whose name and value are both non-empty, on the domain of the platform;
\* for youtube a pair named SID (or HSID, SSID, APISID, SAPISID) or named
\* with the prefix __Secure- has two lines, on .youtube.com and then on
\* .google.com; a pair with an empty name or value has no line; and the value
\* is everything after the first '=', trimmed.
C36_JarLines ==
    jar.platform # NoPlatform =>
        LET s == jar.cookieString
            n == Len(s)
            pf == jar.platform
            Starts == {a \in 1..(n + 1) : a = 1 \/ s[a - 1] = ";"}
            End(a) == IF \E i \in a..n : s[i] = ";"
                      THEN (CHOOSE i \in a..n :
                                s[i] = ";" /\ \A j \in a..(i - 1) : s[j] # ";") - 1
                      ELSE n
            NB(a) == {i \in a..End(a) : s[i] # " "}
            Lo(a) == CHOOSE i \in NB(a) : \A j \in NB(a) : i <= j
            Hi(a) == CHOOSE i \in NB(a) : \A j \in NB(a) : j <= i
            Eq(a) == {i \in Lo(a)..Hi(a) : s[i] = "="}
            E(a) == CHOOSE i \in Eq(a) : \A j \in Eq(a) : i <= j
            Valid(a) == /\ NB(a) # {} /\ Eq(a) # {}
                        /\ Lo(a) < E(a) /\ E(a) < Hi(a)
            NameEnd(a) == CHOOSE i \in Lo(a)..(E(a) - 1) :
                              s[i] # " " /\ \A j \in (i + 1)..(E(a) - 1) : s[j] = " "
            ValueStart(a) == CHOOSE i \in (E(a) + 1)..Hi(a) :
                                 s[i] # " " /\ \A j \in (E(a) + 1)..(i - 1) : s[j] = " "
            Name(a) == SubSeq(s, Lo(a), NameEnd(a))
            Value(a) == SubSeq(s, ValueStart(a), Hi(a))
            Twice(a) == /\ pf = "youtube"
                        /\ (s[Lo(a)] = "__Secure-" \/ Name(a) = <<"SID">>)
            Slots == {sl \in Starts \X {1, 2} :
                         Valid(sl[1]) /\ (sl[2] = 2 => Twice(sl[1]))}
            Index(sl) == 1 + Cardinality({o \in Slots :
                                             \/ o[1] < sl[1]
                                             \/ (o[1] = sl[1] /\ o[2] < sl[2])})
        IN /\ Len(jar.lines) = Cardinality(Slots)
           /\ \A sl \in Slots :
                LET a == sl[1]
                    line == jar.lines[Index(sl)]
                IN /\ line.domain =
                        IF Twice(a)
                        THEN (IF sl[2] = 1 THEN ".youtube.com" ELSE ".google.com")
                        ELSE CASE pf = "instagram" -> ".instagram.com"
                               [] pf = "twitter" -> ".twitter.com"
                               [] pf = "youtube" -> ".youtube.com"
                   /\ line.subdomains /\ line.path = "/" /\ line.secure
                   /\ line.expiry > now
                   /\ line.name = Name(a)
                   /\ line.value = Value(a)

\* A youtube cookie string with a pair named SID and a pair whose value is
\* '=': two lines for the first and one for the second.
C36_Witness ==
    /\ jar.platform = "youtube"
    /\ Len(jar.lines) = 3
    /\ jar.lines[1].name = <<"SID">> /\ jar.lines[1].domain = ".youtube.com"
    /\ jar.lines[2].name = <<"SID">> /\ jar.lines[2].domain = ".google.com"
    /\ jar.lines[3].value = <<"=">>

\* C37: the cookie file handed to an extractor invocation holds the material
\* the store had for the URL's platform when the invocation started, and
\* while that invocation is running no step rewrites the file with other
\* material.
C37_CookieFileStable ==
    [][/\ (calls'.ytdlp = calls.ytdlp + 1 /\ proc'.cookies # NoPlatform)
            => cookieFile'[proc'.cookies] = platformCookies'[proc'.cookies].cookies
       /\ (proc.kind = "ytdlp" /\ proc.cookies # NoPlatform /\ proc' = proc)
            => cookieFile'[proc.cookies] = cookieFile[proc.cookies]
      ]_vars

\* C38: in a request for Instagram or Twitter with inline cookies and no
\* other writer of the store, the step that ends the refresh and starts
\* Adapter B hands it the inline material when the refresh did not succeed,
\* and the backend's material when it did, the store then holding the
\* backend's cookies, syncedAt and expiresAt.
C38_InlineUnlessRefreshed ==
    [][(/\ pc = "refresh" /\ lastFetch'.kind # "none"
        /\ req.cookies # NoCookies /\ (req.url.ig \/ req.url.tw)
        /\ platformCookies[RefreshPlatform(req.url)].cookies = req.cookies)
          => LET p == RefreshPlatform(req.url)
                 refreshed == lastFetch'.returned # NoCookies
             IN /\ proc'.kind = "ytdlp" /\ proc'.cookies = p
                /\ cookieFile'[p] = IF refreshed THEN lastFetch'.cookies ELSE req.cookies
                /\ refreshed => platformCookies'[p] =
                                   [cookies |-> lastFetch'.cookies,
                                    syncedAt |-> lastFetch'.syncedAt,
                                    expiresAt |-> lastFetch'.expiresAt]]_vars

\* C39: in the step that sends a success response, if driveUploaded is true
\* the artifact named by filename is no longer in the temp directory, and if
\* driveUploaded is false it is there with a size that is not 0 and not below
\* the floor of GET /api/file, so that a following GET /api/file for that
\* name starts a transfer.
C39_ArtifactAtSuccess ==
    [][(sent' = sent + 1 /\ resp'.success)
          => IF resp'.driveUploaded
             THEN files'[resp'.filename] = Absent
             ELSE /\ files'[resp'.filename] # Absent
                  /\ files'[resp'.filename] # 0
                  /\ files'[resp'.filename] >= SERVE_MIN_SIZE]_vars

\* A success response of Adapter B without hand-off has been sent, and its
\* artifact is in the temp directory at exactly the floor of GET /api/file.
C39_Witness ==
    /\ pc = "done" /\ sent = 1 /\ resp.success /\ ~resp.driveUploaded
    /\ resp.method = "yt-dlp"
    /\ files[resp.filename] = SERVE_MIN_SIZE

====
